---- MODULE Spec2Model ----
(***************************************************************************)
(* Verification model of the GENESIS autonomous agent:                     *)
(*   - DecisionEngine weight vector          (src/unnamed/part_002)        *)
(*   - SolanaTransactions.submitTransaction  (src/unnamed/part_004)        *)
(*   - GenesisAgent autonomy loop and its action handlers                  *)
(*     (src/src/core/genesis.ts, task-executor.ts, agent-coordinator.ts)   *)
(* The specifications share the variables: SpecEngine drives the weight    *)
(* vector alone, SpecSubmit drives build + submit calls of the submitter,  *)
(* Spec drives the autonomy loop.                                          *)
(***************************************************************************)
EXTENDS Integers, Sequences, FiniteSets, TLC

VARIABLES
    decisionWeights,  \* DecisionEngine.decisionWeights: type -> double
    updatedTypes,     \* history: the types updateWeights was called with
    streak,           \* history: the last calls of updateWeights in a row
    subPc,            \* submitter: position in buildMemoTransaction / submitTransaction
    attempt,          \* submitTransaction: the loop variable
    recentBlockhash,  \* transaction.recentBlockhash (0: not set)
    fetchCount,       \* connection: getLatestBlockhash responses handed out so far
    events,           \* history: the network calls and sleeps of the current call
    subResult,        \* what the call returned or threw
    subCalls,         \* number of build + submit calls begun
    running,          \* GenesisAgent.running
    pc,               \* autonomy loop: the statement it is at
    cycle,            \* number of cycles begun
    decision,         \* the cycle's decision (reason: its type, decide: its id)
    result,           \* the cycle's ActionResult
    decisionLog,      \* store: the decision log
    agents,           \* store: the child agents, in creation order
    metrics,          \* store: the SystemMetrics aggregate
    acted,            \* history: what the handler of this cycle threw and submitted
    appended,         \* history: log entries appended in this cycle
    parked,           \* a second startAutonomyLoop invocation, suspended at an await
    selection,        \* the last selectDecision call: its input and what it returned
    store,            \* one collection file of the memory store and the write in progress
    memory,           \* a MemorySystem instance, its files, and a fresh instance
    factory,          \* the AgentFactory: its selectRole and createAgent calls
    evolved,          \* history: the EvolutionEvent this cycle's evolve appended
    strategy,         \* a call of actEvolveStrategy: what it read and the weights after
    coordination,     \* a call of coordinateAgents: the snapshot, the reports, the messages
    delegation        \* a call of actDelegateTask on its own: the store and the outcome

engineVars == <<decisionWeights, updatedTypes, streak>>

submitVars == <<subPc, attempt, recentBlockhash, fetchCount, events, subResult, subCalls>>

loopVars == <<running, pc, cycle, decision, result, decisionLog, agents,
              metrics, acted, appended>>

callVars == <<coordination, delegation>>

restVars == <<memory, factory, evolved, strategy, callVars>>

otherVars == <<parked, selection, store, restVars>>

engineRest == <<updatedTypes, streak>>

(***************************************************************************)
(* IEEE-754 doubles of the weight vector.                                  *)
(* Every weight constant of the engine (0.05 ... 0.9) is a double that is  *)
(* an integer multiple of 2^-57 and below 1, and so is every sum or        *)
(* difference of two of them. A double x is held as <<hi, lo>> with        *)
(* x = (hi * 2^29 + lo) * 2^-57, 0 <= lo < 2^29 (two limbs, because the    *)
(* 57-bit integer does not fit the integers of TLC). An addition is the *)
(* exact integer sum rounded to 53 significant bits, ties to even, which   *)
(* is what the double addition of the source computes.                     *)
(***************************************************************************)
Limb == 2^29

\* Bits to drop so that 53 significant bits remain (hi carries bits 29..).
\* A sum of weights may reach 2 and more (hi >= 2^29).
DropBits(hi) ==
    IF hi >= 2^30 THEN 7
    ELSE IF hi >= 2^29 THEN 6
    ELSE IF hi >= 2^28 THEN 5
    ELSE IF hi >= 2^27 THEN 4
    ELSE IF hi >= 2^26 THEN 3
    ELSE IF hi >= 2^25 THEN 2
    ELSE IF hi >= 2^24 THEN 1
    ELSE 0

\* Round the exact value <<hi, lo>> to the nearest double, ties to even.
FRound(x) ==
    LET d    == DropBits(x[1])
        p    == 2^d
        r    == x[2] % p
        odd  == ((x[2] \div p) % 2) = 1
        up   == d > 0 /\ (2 * r > p \/ (2 * r = p /\ odd))
        lo   == x[2] - r + (IF up THEN p ELSE 0)
    IN  IF lo >= Limb THEN <<x[1] + 1, lo - Limb>> ELSE <<x[1], lo>>

FLess(a, b) == a[1] < b[1] \/ (a[1] = b[1] /\ a[2] < b[2])

FMin(a, b) == IF FLess(b, a) THEN b ELSE a

FMax(a, b) == IF FLess(a, b) THEN b ELSE a

\* a + b in double arithmetic.
FAdd(a, b) ==
    LET lo == a[2] + b[2]
    IN  FRound(<<a[1] + b[1] + (lo \div Limb), lo % Limb>>)

\* a - b in double arithmetic, for a >= b.
FSub(a, b) ==
    LET borrow == a[2] < b[2]
    IN  FRound(<<a[1] - b[1] - (IF borrow THEN 1 ELSE 0),
                 a[2] - b[2] + (IF borrow THEN Limb ELSE 0)>>)

\* The one element of a one-element set. An operator that uses a value more
\* than once takes it as the element of such a set, so that it is computed
\* once.
The(S) == CHOOSE x \in S : TRUE

\* The five base-2^12 digits of the 58-bit value <<hi, lo>>.
Digits(x) ==
    <<x[2] % 4096,
      (x[2] \div 4096) % 4096,
      (x[2] \div 2^24) + (x[1] % 128) * 32,
      (x[1] \div 128) % 4096,
      x[1] \div 2^19>>

\* Column k (0..8) of the schoolbook product of two digit sequences.
Column(a, b, k) ==
    LET Term(i) == IF k - i >= 0 /\ k - i <= 4 THEN a[i + 1] * b[k - i + 1] ELSE 0
    IN  Term(0) + Term(1) + Term(2) + Term(3) + Term(4)

\* The columns of the product with the carries taken in: c[k + 1] is column k
\* plus what column k - 1 carries over.
Carried(da, db) ==
    LET c0 == Column(da, db, 0)
        c1 == Column(da, db, 1) + (c0 \div 4096)
        c2 == Column(da, db, 2) + (c1 \div 4096)
        c3 == Column(da, db, 3) + (c2 \div 4096)
        c4 == Column(da, db, 4) + (c3 \div 4096)
        c5 == Column(da, db, 5) + (c4 \div 4096)
        c6 == Column(da, db, 6) + (c5 \div 4096)
        c7 == Column(da, db, 7) + (c6 \div 4096)
        c8 == Column(da, db, 8) + (c7 \div 4096)
    IN  <<c0, c1, c2, c3, c4, c5, c6, c7, c8>>

\* The exact product c, in units of 2^-114, cut to units of 2^-57 with the
\* cut-off part kept as a round bit and a sticky bit, then rounded to 53
\* significant bits, ties to even. Below 2^-5 a double is finer than the
\* unit; such a product is rounded to the unit (it is only ever compared
\* with 0.05).
RoundProduct(c) ==
    LET d4 == c[5] % 4096
        d5 == c[6] % 4096
        d6 == c[7] % 4096
        d7 == c[8] % 4096
        lo == (d4 \div 512) + d5 * 8 + d6 * 2^15 + (d7 % 4) * 2^27
        hi == (d7 \div 4) + c[9] * 1024
        low0  == (c[4] % 4096) = 0 /\ (c[3] % 4096) = 0
                 /\ (c[2] % 4096) = 0 /\ (c[1] % 4096) = 0
        below == (d4 % 512) # 0 \/ ~low0
        half  == (d4 % 512) = 256 /\ low0
        above == (d4 % 512) > 256 \/ ((d4 % 512) = 256 /\ ~low0)
        d     == DropBits(hi)
        p     == 2^d
        r     == lo % p
        odd   == ((lo \div p) % 2) = 1
        up    == IF d = 0 THEN above \/ (half /\ odd)
                 ELSE 2 * r > p \/ (2 * r = p /\ (below \/ odd))
        lo2   == lo - r + (IF up THEN p ELSE 0)
    IN  IF lo2 >= Limb THEN <<hi + 1, lo2 - Limb>> ELSE <<hi, lo2>>

\* a * b in double arithmetic.
FMul(a, b) ==
    The({RoundProduct(c) :
            c \in {The({Carried(d[1], d[2]) : d \in {<<Digits(a), Digits(b)>>}})}})

\* a - b exactly, for a >= b.
LSub(a, b) ==
    LET borrow == a[2] < b[2]
    IN  <<a[1] - b[1] - (IF borrow THEN 1 ELSE 0),
          a[2] - b[2] + (IF borrow THEN Limb ELSE 0)>>

\* 2 * a exactly.
LDouble(a) == <<2 * a[1] + ((2 * a[2]) \div Limb), (2 * a[2]) % Limb>>

\* Long division: k more quotient bits of r / b, appended to the quotient q;
\* r < 2 * b throughout. The result is <<quotient, remainder>>.
RECURSIVE DivBits(_, _, _, _)

\* One step of the long division on x = <<r, b, k, q>>.
DivBitsOf(x) ==
    IF x[3] = 0 THEN <<x[4], x[1]>>
    ELSE LET bit == ~FLess(x[1], x[2])
             r1  == IF bit THEN LSub(x[1], x[2]) ELSE x[1]
             q2  == LDouble(x[4])
         IN  DivBits(LDouble(r1), x[2], x[3] - 1,
                     IF bit THEN <<q2[1], q2[2] + 1>> ELSE q2)

DivBits(r, b, k, q) == The({DivBitsOf(x) : x \in {<<r, b, k, q>>}})

\* n more bytes of the quotient, on x = <<<<quotient, remainder>>, b, n>>.
RECURSIVE DivBytes(_)
DivBytes(x) ==
    IF x[3] = 0 THEN x[1]
    ELSE The({DivBytes(<<qr, x[2], x[3] - 1>>) :
                 qr \in {DivBits(x[1][2], x[2], 8, x[1][1])}})

\* The 58 quotient bits of a / b: two bits, then seven bytes.
Quotient(a, b) ==
    The({DivBytes(<<qr, b, 7>>) : qr \in {DivBits(a, b, 2, <<0, 0>>)}})

\* The quotient qr[1], in units of 2^-57, with the next bit as the round bit
\* and the remainder qr[2] as the sticky bit, rounded to 53 significant
\* bits, ties to even. A quotient below 2^-5 is rounded to the unit.
RoundQuotient(qr, b) ==
    LET hi     == qr[1][1]
        lo     == qr[1][2]
        rbit   == ~FLess(qr[2], b)
        rest   == IF rbit THEN LSub(qr[2], b) ELSE qr[2]
        sticky == rest # <<0, 0>>
        d      == DropBits(hi)
        p      == 2^d
        r      == lo % p
        odd    == ((lo \div p) % 2) = 1
        up     == IF d = 0 THEN rbit /\ (sticky \/ odd)
                  ELSE 2 * r > p \/ (2 * r = p /\ (rbit \/ sticky \/ odd))
        lo2    == lo - r + (IF up THEN p ELSE 0)
    IN  IF lo2 >= Limb THEN <<hi + 1, lo2 - Limb>> ELSE <<hi, lo2>>

\* a / b in double arithmetic, for 0 < a <= b < 4: one integer bit and 57
\* fraction bits by long division, then the rounding.
FDiv(a, b) ==
    The({The({RoundQuotient(qr, x[2]) : qr \in {Quotient(x[1], x[2])}}) :
            x \in {<<a, b>>}})

\* The double literals of decision-engine.ts (hex: mantissa * 2^exponent).
D_0_05 == <<13421772, 429496730>>   \* 0.05 = 0x1.999999999999ap-5
D_0_9  == <<241591910, 214748368>>  \* 0.9  = 0x1.ccccccccccccdp-1
D_0_3  == <<80530636, 429496728>>   \* 0.3  = 0x1.3333333333333p-2
D_0_15 == <<40265318, 214748364>>   \* 0.15 = 0x1.3333333333333p-3
D_0_1  == <<26843545, 322122548>>   \* 0.1  = 0x1.999999999999ap-4
D_0_25 == <<67108864, 0>>           \* 0.25 = 0x1.0000000000000p-2
D_1_75 == <<469762048, 0>>          \* 1.75 = 0x1.c000000000000p+0
D_2_0  == <<536870912, 0>>          \* 2.0  = 0x1.0000000000000p+1
D_0_5  == <<134217728, 0>>          \* 0.5  = 0x1.0000000000000p-1
D_1_5  == <<402653184, 0>>          \* 1.5  = 0x1.8000000000000p+0
D_0_7  == <<187904819, 107374176>>  \* 0.7  = 0x1.6666666666666p-1
D_1_3  == <<348966092, 429496736>>  \* 1.3  = 0x1.4cccccccccccdp+0
D_0_8  == <<214748364, 429496736>>  \* 0.8  = 0x1.999999999999ap-1
D_1_0  == <<268435456, 0>>          \* 1.0
D_0    == <<0, 0>>                  \* 0.0
D_Below1 == <<268435455, 536870896>> \* 1 - 2^-53, the largest double below 1

(***************************************************************************)
(* SolanaTransactions: buildMemoTransaction followed by submitTransaction. *)
(* A blockhash is identified by the getLatestBlockhash response that       *)
(* carried it: response number n carries blockhash n. A send error is      *)
(* identified by the attempt that raised it.                               *)
(***************************************************************************)
\* maxRetries: number = 3
DefaultMaxRetries == 3

\* The number of build + submit calls one behaviour of SpecSubmit makes.
MaxSubmitCalls == 3

NoResult == [kind |-> "none"]

SendError(n) == [kind |-> "threw", error |-> <<"send", n>>]

FetchError(n) == [kind |-> "threw", error |-> <<"getLatestBlockhash", n>>]

\* throw new Error('Transaction failed after all retries')
AllRetriesError == [kind |-> "threw", error |-> <<"Transaction failed after all retries">>]

Signature(call, n) == [kind |-> "returned", signature |-> <<"sig", call, n>>]

\* A loop that admits one attempt too many.
LoopCondition_OneMore(n, maxRetries) == n <= maxRetries + 1

\* attempt <= maxRetries
LoopCondition(n, maxRetries) == n <= maxRetries

\* A last-attempt test that is one attempt late: attempt > maxRetries.
IsLastAttempt_Late(n, maxRetries) == n > maxRetries

\* attempt === maxRetries
IsLastAttempt(n, maxRetries) == n = maxRetries

\* 1000 * attempt (milliseconds)
BackoffMs(n) == 1000 * n

\* A refresh that fetches but keeps the old blockhash on the transaction.
RefreshedBlockhash_Stale(old, fetched) == old

\* transaction.recentBlockhash = blockhash
RefreshedBlockhash(old, fetched) == fetched

\* buildMemoTransaction: the memo instruction, then getLatestBlockhash, which
\* either answers (the blockhash is set on the transaction) or rejects (the
\* build throws and no submission follows).
BuildMemoTransaction ==
    /\ UNCHANGED <<engineVars, loopVars, otherVars>>
    /\ subPc = "idle"
    /\ subCalls < MaxSubmitCalls
    /\ subCalls' = subCalls + 1
    /\ attempt' = 0
    /\ subResult' = NoResult
    /\ \E ok \in BOOLEAN :
         IF ok
         THEN /\ fetchCount' = fetchCount + 1
              /\ recentBlockhash' = fetchCount + 1
              /\ events' = <<[kind |-> "fetch", blockhash |-> fetchCount + 1]>>
              /\ subPc' = "built"
         ELSE /\ events' = <<[kind |-> "fetchFailed"]>>
              /\ recentBlockhash' = 0
              /\ subPc' = "buildThrew"
              /\ UNCHANGED fetchCount

\* submitTransaction is entered: let attempt = 1.
SubmitEnter ==
    /\ UNCHANGED <<engineVars, loopVars, otherVars>>
    /\ subPc = "built"
    /\ attempt' = 1
    /\ subPc' = "loop"
    /\ UNCHANGED <<recentBlockhash, fetchCount, events, subResult, subCalls>>

\* The for-loop test; past the loop: throw new Error(...).
LoopTest ==
    /\ UNCHANGED <<engineVars, loopVars, otherVars>>
    /\ subPc = "loop"
    /\ IF LoopCondition(attempt, DefaultMaxRetries)
       THEN subPc' = "send" /\ UNCHANGED subResult
       ELSE subPc' = "threw" /\ subResult' = AllRetriesError
    /\ UNCHANGED <<attempt, recentBlockhash, fetchCount, events, subCalls>>

\* sendAndConfirmTransaction with the transaction as it is now. It resolves
\* (return signature) or rejects; in the catch block the last attempt
\* rethrows the caught error, an earlier one goes on to the backoff.
SendAndConfirm ==
    /\ UNCHANGED <<engineVars, loopVars, otherVars>>
    /\ subPc = "send"
    /\ \E ok \in BOOLEAN :
         /\ events' = Append(events, [kind |-> "send", attempt |-> attempt,
                                       blockhash |-> recentBlockhash, ok |-> ok])
         /\ IF ok
            THEN subPc' = "returned" /\ subResult' = Signature(subCalls, attempt)
            ELSE IF IsLastAttempt(attempt, DefaultMaxRetries)
                 THEN subPc' = "threw" /\ subResult' = SendError(attempt)
                 ELSE subPc' = "backoff" /\ UNCHANGED subResult
    /\ UNCHANGED <<attempt, recentBlockhash, fetchCount, subCalls>>

\* await this.sleep(1000 * attempt)
Backoff ==
    /\ UNCHANGED <<engineVars, loopVars, otherVars>>
    /\ subPc = "backoff"
    /\ events' = Append(events, [kind |-> "sleep", ms |-> BackoffMs(attempt)])
    /\ subPc' = "refresh"
    /\ UNCHANGED <<attempt, recentBlockhash, fetchCount, subResult, subCalls>>

\* getLatestBlockhash inside the catch block, then attempt++. The call is
\* not guarded: when it rejects, its error leaves submitTransaction.
RefreshBlockhash ==
    /\ UNCHANGED <<engineVars, loopVars, otherVars>>
    /\ subPc = "refresh"
    /\ \E ok \in BOOLEAN :
         IF ok
         THEN /\ fetchCount' = fetchCount + 1
              /\ recentBlockhash' = RefreshedBlockhash(recentBlockhash, fetchCount + 1)
              /\ events' = Append(events, [kind |-> "fetch", blockhash |-> fetchCount + 1])
              /\ attempt' = attempt + 1
              /\ subPc' = "loop"
              /\ UNCHANGED subResult
         ELSE /\ events' = Append(events, [kind |-> "fetchFailed"])
              /\ subPc' = "threw"
              /\ subResult' = FetchError(attempt)
              /\ UNCHANGED <<fetchCount, recentBlockhash, attempt>>
    /\ UNCHANGED subCalls

\* The caller goes on; a later call starts from a new transaction.
CallEnds ==
    /\ UNCHANGED <<engineVars, loopVars, otherVars>>
    /\ subPc \in {"returned", "threw", "buildThrew"}
    /\ subCalls < MaxSubmitCalls
    /\ subPc' = "idle"
    /\ UNCHANGED <<attempt, recentBlockhash, fetchCount, events, subResult, subCalls>>

NextSubmit ==
    \/ BuildMemoTransaction
    \/ SubmitEnter
    \/ LoopTest
    \/ SendAndConfirm
    \/ Backoff
    \/ RefreshBlockhash
    \/ CallEnds

(***************************************************************************)
(* DecisionEngine                                                          *)
(***************************************************************************)
DecisionType ==
    {"CREATE_AGENT", "COORDINATE_AGENTS", "EVOLVE_STRATEGY",
     "WAIT_AND_OBSERVE", "DELEGATE_TASK", "ANALYZE_PERFORMANCE"}

\* constructor: the base weights.
InitialWeights ==
    [t \in DecisionType |->
        CASE t = "CREATE_AGENT"        -> D_0_3
          [] t = "COORDINATE_AGENTS"   -> D_0_15
          [] t = "EVOLVE_STRATEGY"     -> D_0_1
          [] t = "WAIT_AND_OBSERVE"    -> D_0_1
          [] t = "DELEGATE_TASK"       -> D_0_25
          [] t = "ANALYZE_PERFORMANCE" -> D_0_1]

\* A clamp that lost its upper bound: Math.max(0.05, x).
ClampWeight_NoCeiling(x) == FMax(D_0_05, x)

\* A clamp that lost its lower bound: Math.min(0.9, x).
ClampWeight_NoFloor(x) == FMin(D_0_9, x)

\* Math.max(0.05, Math.min(0.9, x))
ClampWeight(x) == FMax(D_0_05, FMin(D_0_9, x))

\* The same for the weight a calculate...Weight method has computed.
Clamped(weight) == The({ClampWeight(w) : w \in {weight}})

\* An adjustment that rewards with 0.025 instead of 0.05.
AdjustmentSize_HalfReward(success) ==
    IF success THEN <<6710886, 214748365>> ELSE D_0_05

\* |adjustment| of: const adjustment = success ? 0.05 : -0.05
AdjustmentSize(success) == D_0_05

\* The new value of one weight: w + adjustment, clamped. A difference below
\* zero (w < |adjustment|) is below the floor and clamps to 0.05.
AdjustedWeight(w, success) ==
    IF success THEN ClampWeight(FAdd(w, AdjustmentSize(success)))
    ELSE IF FLess(w, AdjustmentSize(success)) THEN D_0_05
    ELSE ClampWeight(FSub(w, AdjustmentSize(success)))

\* updateWeights(decisionType, success) on a weight vector.
updateWeights(weights, decisionType, success) ==
    [weights EXCEPT ![decisionType] = AdjustedWeight(@, success)]

\* SystemState as generateOptions reads it: agentCount, the evolution score
\* (thousandths), the number of recent decisions, and of the active agents
\* the children (id other than genesis_root) and the idle children.
calculateCreateAgentWeight(weights, state) ==
    LET w == weights["CREATE_AGENT"]
    IN  Clamped(IF state.agentCount < 3 THEN FMul(w, D_1_75)
                    ELSE IF state.agentCount >= 5 THEN FMul(w, D_0_25)
                    ELSE w)

calculateCoordinateWeight(weights, state) ==
    LET w == weights["COORDINATE_AGENTS"]
    IN  Clamped(IF state.agentCount >= 3 THEN FMul(w, D_2_0)
                    ELSE FMul(w, D_0_5))

calculateEvolveWeight(weights, state) ==
    LET w == weights["EVOLVE_STRATEGY"]
    IN  Clamped(IF state.evolutionScore < 500 THEN FMul(w, D_1_5) ELSE w)

calculateWaitWeight(weights, state) ==
    LET w == weights["WAIT_AND_OBSERVE"]
    IN  Clamped(IF state.recentDecisions < 5 THEN FMul(w, D_0_7) ELSE w)

calculateDelegateTaskWeight(weights, state) ==
    LET w  == weights["DELEGATE_TASK"]
        w1 == IF state.childAgents > 0 THEN FMul(w, D_1_5) ELSE FMul(w, D_0_1)
        w2 == IF 2 * state.idleAgents > state.childAgents THEN FMul(w1, D_1_3)
              ELSE w1
    IN  Clamped(w2)

calculateAnalyzeWeight(weights, state) ==
    LET w  == weights["ANALYZE_PERFORMANCE"]
        w1 == IF state.recentDecisions >= 5 THEN FMul(w, D_1_5) ELSE w
        w2 == IF state.agentCount >= 3 THEN FMul(w1, D_1_3) ELSE w1
    IN  Clamped(w2)

\* One option: the reasoning text and the parameters are derived from the
\* state and differ from type to type.
Option(type, weight, state) ==
    [type |-> type, weight |-> weight,
     reasoning |-> <<"reasoning", type, state.agentCount>>,
     parameters |-> <<"parameters", type, state.childAgents>>]

\* generateOptions: the six options in the order they are pushed.
generateOptions(weights, state) ==
    <<Option("CREATE_AGENT", calculateCreateAgentWeight(weights, state), state),
      Option("COORDINATE_AGENTS", calculateCoordinateWeight(weights, state), state),
      Option("EVOLVE_STRATEGY", calculateEvolveWeight(weights, state), state),
      Option("WAIT_AND_OBSERVE", calculateWaitWeight(weights, state), state),
      Option("DELEGATE_TASK", calculateDelegateTaskWeight(weights, state), state),
      Option("ANALYZE_PERFORMANCE", calculateAnalyzeWeight(weights, state), state)>>

\* applyRandomness(weight, 0.2): weight * randomFactor, where randomFactor is
\* 1 + (Math.random() * 2 - 1) * 0.2.
applyRandomness(weight, randomFactor) == FMul(weight, randomFactor)

\* randomFactor for Math.random() = 0 and 0.5: 1 + (-1) * 0.2 = 0.8 and
\* 1 + 0 * 0.2 = 1 in double arithmetic.
RandomFactors == {D_0_8, D_1_0}

\* The values of the draw Math.random() in [0, 1): 0, 0.5 and 1 - 2^-53.
RandomDraws == {D_0, D_0_5, D_Below1}

\* reduce((sum, opt) => sum + opt.weight, 0) over the first n options.
RECURSIVE SumWeights(_, _)

SumWeightsOf(x) ==
    IF x[2] = 0 THEN D_0
    ELSE The({FAdd(y[1], y[2]) :
                 y \in {<<SumWeights(x[1], x[2] - 1), x[1][x[2]].weight>>}})

SumWeights(options, n) == The({SumWeightsOf(x) : x \in {<<options, n>>}})

\* The option the loop falls back to when no cumulative sum reaches the draw.
Fallback_First(normalizedOptions) == normalizedOptions[1]

Fallback(normalizedOptions) == normalizedOptions[Len(normalizedOptions)]

\* options.map((option) => ({...option, weight: applyRandomness(...)}))
Randomized(options, factors) ==
    [i \in DOMAIN options |->
        [options[i] EXCEPT !.weight = applyRandomness(@, factors[i])]]

\* randomizedOptions.map((opt) => ({...opt, weight: opt.weight / totalWeight}))
DividedBy(randomizedOptions, totalWeight) ==
    [i \in DOMAIN randomizedOptions |->
        [randomizedOptions[i] EXCEPT !.weight = FDiv(@, totalWeight)]]

\* normalizedOptions: the jittered options divided by their total.
Normalized(options, factors) ==
    The({The({DividedBy(rt[1], rt[2]) :
                 rt \in {<<r, SumWeights(r, Len(r))>>}}) :
            r \in {Randomized(options, factors)}})

\* The value of cumulative after each of the first n iterations of the loop.
RECURSIVE Cumulative(_, _)

CumulativeOf(x) ==
    IF x[2] = 0 THEN <<>>
    ELSE The({Append(before,
                     FAdd(IF x[2] = 1 THEN D_0 ELSE before[x[2] - 1],
                          x[1][x[2]].weight)) :
                 before \in {Cumulative(x[1], x[2] - 1)}})

Cumulative(normalizedOptions, n) ==
    The({CumulativeOf(x) : x \in {<<normalizedOptions, n>>}})

\* The positions at which the for loop would return: random <= cumulative.
Reached(normalizedOptions, random) ==
    The({{i \in DOMAIN c : ~FLess(c[i], random)} :
            c \in {Cumulative(normalizedOptions, Len(normalizedOptions))}})

\* The for loop and what follows it, on the normalized options.
SelectFrom(normalizedOptions, random) ==
    The({IF reached = {} THEN Fallback(normalizedOptions)
         ELSE normalizedOptions[CHOOSE i \in reached : \A j \in reached : i <= j] :
            reached \in {Reached(normalizedOptions, random)}})

\* selectDecision(options), with the jitter factors and the draw as inputs:
\* the first normalized option whose cumulative sum reaches the draw, else
\* the fallback.
selectDecision(options, factors, random) ==
    The({SelectFrom(n, random) : n \in {Normalized(options, factors)}})

\* createDecision as reason and decide use it: the fields of the Decision
\* that come from the option.
DecisionFrom(option) ==
    [type |-> option.type, reasoning |-> option.reasoning,
     parameters |-> option.parameters, confidence |-> option.weight]

\* A system state with an empty store: no entity, no decision yet.
EmptyStore ==
    [agentCount |-> 0, evolutionScore |-> 500, recentDecisions |-> 0,
     childAgents |-> 0, idleAgents |-> 0]

\* A system state with six active entities, five of them children, one idle.
SixActive ==
    [agentCount |-> 6, evolutionScore |-> 500, recentDecisions |-> 10,
     childAgents |-> 5, idleAgents |-> 1]

\* The system states generateOptions is given.
SystemStates == {EmptyStore, SixActive}

\* No selectDecision call has been made.
NoSelection == [made |-> FALSE]

\* No Decision has been created from the selection.
NotDecided == [type |-> "none"]

\* What one selectDecision call leaves behind; with reasoned, createDecision
\* has been applied to what it returned.
Selected(options, factors, random, reasoned) ==
    The({[made |-> TRUE, options |-> options, returned |-> option,
          fellThrough |-> Reached(Normalized(options, factors), random) = {},
          decision |-> IF reasoned THEN DecisionFrom(option) ELSE NotDecided] :
            option \in {selectDecision(options, factors, random)}})

\* selectDecision called with a non-empty list: the first n of the options
\* generateOptions gives.
SelectDecisionCall ==
    /\ selection = NoSelection
    /\ \E state \in SystemStates :
         \E all \in {generateOptions(decisionWeights, state)} :
           \E n \in DOMAIN all :
             \E options \in {SubSeq(all, 1, n)} :
               \E factors \in [1..n -> RandomFactors], random \in RandomDraws :
                  selection' = Selected(options, factors, random, FALSE)
    /\ UNCHANGED <<engineVars, submitVars, loopVars, parked, store, restVars>>

\* reason followed by decide: generateOptions, selectDecision on all of its
\* options, createDecision on the recommendation.
ReasonThenDecide ==
    /\ selection = NoSelection
    /\ \E state \in SystemStates :
         \E options \in {generateOptions(decisionWeights, state)} :
           \E factors \in [1..Len(options) -> RandomFactors],
              random \in RandomDraws :
                selection' = Selected(options, factors, random, TRUE)
    /\ UNCHANGED <<engineVars, submitVars, loopVars, parked, store, restVars>>

NextSelect ==
    \/ SelectDecisionCall
    \/ ReasonThenDecide

\* The number of distinct action types one behaviour of SpecEngine updates.
MaxTypesUpdated == 2

\* The number of distinct action types one behaviour of SpecStreak updates.
MaxStreakTypes == 1

\* The streak counter stops counting here (17 calls saturate, one more stays).
MaxStreak == 18

\* engine.updateWeights(t, success), while at most maxTypes types are updated.
UpdateWeightsOn(t, success, maxTypes) ==
    /\ Cardinality(updatedTypes \cup {t}) <= maxTypes
    /\ decisionWeights' = updateWeights(decisionWeights, t, success)
    /\ updatedTypes' = updatedTypes \cup {t}

\* One call engine.updateWeights(t, success).
UpdateWeightsCall ==
    \E t \in DecisionType, success \in BOOLEAN :
        /\ UpdateWeightsOn(t, success, MaxTypesUpdated)
        /\ UNCHANGED streak
        /\ UNCHANGED <<submitVars, loopVars, otherVars>>

\* One call engine.updateWeights(t, success), counted: streak holds how many
\* calls in a row had this type and this outcome.
UpdateWeightsCounted ==
    \E t \in DecisionType, success \in BOOLEAN :
        /\ UpdateWeightsOn(t, success, MaxStreakTypes)
        /\ streak' =
             IF streak.type = t /\ streak.success = success
             THEN [streak EXCEPT !.len = IF @ < MaxStreak THEN @ + 1 ELSE @]
             ELSE [type |-> t, success |-> success, len |-> 1]
        /\ UNCHANGED <<submitVars, loopVars, otherVars>>

\* The largest value with 32 fraction bits that is not above x: a value
\* Math.random() can return when x < 1.
DrawUpTo(x) == <<x[1], x[2] - (x[2] % 33554432)>>

\* For each option a draw that the for loop of selectDecision answers with
\* that option if the option has a positive share: the cumulative sum at
\* the option, and for the last option the largest draw there is.
DrawsFor(normalizedOptions) ==
    The({[i \in DOMAIN c |-> IF i = Len(c) THEN D_Below1 ELSE DrawUpTo(c[i])] :
            c \in {Cumulative(normalizedOptions, Len(normalizedOptions))}})

\* The jitter of one call: every factor 1, or one option at the lowest
\* factor (0.8) while the others keep 1.
Jitters(n) ==
    {[i \in 1..n |-> D_1_0]}
      \cup {[i \in 1..n |-> IF i = k THEN D_0_8 ELSE D_1_0] : k \in 1..n}

\* What selectDecision(generateOptions(state)) works with and, option by
\* option, what it returns for the draw of DrawsFor.
SelectedEach(options, factors) ==
    The({The({[made |-> TRUE, options |-> options,
               normalized |-> [i \in DOMAIN n |-> n[i].weight],
               draws |-> draws,
               returned |-> [i \in DOMAIN n |-> SelectFrom(n, draws[i]).type]] :
                 draws \in {DrawsFor(n)}}) :
            n \in {Normalized(options, factors)}})

\* engine.updateWeights(t, success) before any selection is looked at.
WeightStep ==
    /\ selection = NoSelection
    /\ \E t \in DecisionType, success \in BOOLEAN :
         UpdateWeightsOn(t, success, MaxStreakTypes)
    /\ UNCHANGED streak
    /\ UNCHANGED <<submitVars, loopVars, otherVars>>

\* selectDecision(generateOptions(state)) on the weights the engine has.
SelectEachType ==
    /\ selection = NoSelection
    /\ \E state \in SystemStates :
         \E options \in {generateOptions(decisionWeights, state)} :
           \E factors \in Jitters(Len(options)) :
             selection' = SelectedEach(options, factors)
    /\ UNCHANGED <<engineVars, submitVars, loopVars, parked, store, restVars>>

NextReach ==
    \/ WeightStep
    \/ SelectEachType

NextEngine == UpdateWeightsCall

NextStreak == UpdateWeightsCounted

(***************************************************************************)
(* GenesisAgent: the autonomy loop and its action handlers.                *)
(* A collaborator call either answers or throws. One Act phase is given    *)
(* the set of call sites that throw if they are reached (faults); the      *)
(* element "walletMissing" makes wallet.getWallet('genesis_root') answer   *)
(* null. A signature is identified by the cycle whose submission returned  *)
(* it. The evolution score is held in thousandths.                         *)
(***************************************************************************)
\* The number of cycles one behaviour of Spec starts.
MaxCycles == 2

\* The collaborator call sites of the handler of each decision type, and
\* "walletMissing" where the handler asks for the genesis wallet.
OnChainSites ==
    {"getWallet", "walletMissing", "buildMemoTransaction", "submitTransaction",
     "getMetrics", "updateMetrics"}

CallSites(type) ==
    CASE type = "CREATE_AGENT" ->
           OnChainSites \cup {"observe", "createAgent", "saveAgent", "saveAgentTx"}
      [] type = "COORDINATE_AGENTS" -> OnChainSites \cup {"observe"}
      [] type = "EVOLVE_STRATEGY" ->
           OnChainSites \cup {"getMetricsFirst", "getAllAgents"}
      [] type = "DELEGATE_TASK" ->
           OnChainSites \cup {"getAllAgents", "saveAgent", "roleTask",
                              "saveAgentDone", "saveAgentFailed"}
      [] type = "ANALYZE_PERFORMANCE" ->
           OnChainSites \cup {"observe", "getMetricsFirst"}
      [] OTHER -> {}

NoSig == <<>>

NoDecision == [id |-> 0, type |-> "none"]

NoActionResult == [success |-> FALSE, decision |-> NoDecision,
                   transactionSignature |-> NoSig, error |-> "pending"]

NoSubmission == [outcome |-> "none", signature |-> NoSig]

\* An Act phase that reports success although the handler threw.
FailedResult_Lost(d, error) ==
    [success |-> TRUE, decision |-> d,
     transactionSignature |-> NoSig, error |-> "none"]

\* act, catch block: { success: false, decision, outcome: 'Action failed', error }
FailedResult(d, error) ==
    [success |-> FALSE, decision |-> d,
     transactionSignature |-> NoSig, error |-> error]

\* An ActionResult that embeds another decision than the one acted on.
SuccessResult_OtherDecision(d, sig) ==
    [success |-> TRUE, decision |-> [d EXCEPT !.id = @ + 1],
     transactionSignature |-> sig, error |-> "none"]

\* act, try block: { success: true, decision, outcome, transactionSignature }
SuccessResult(d, sig) ==
    [success |-> TRUE, decision |-> d,
     transactionSignature |-> sig, error |-> "none"]

\* factory.createAgent: status CREATED, creationTx '', counters 0.
NewAgent ==
    [status |-> "CREATED", currentTask |-> FALSE, creationTx |-> NoSig,
     successCount |-> 0, failureCount |-> 0]

\* What a handler hands to act: it returned (error "none") or threw, the
\* transactionSignature it returned, what its submission did, and the store
\* and the engine as it leaves them.
Handled(error, sig, submission, ag, m, w) ==
    [error |-> error, transactionSignature |-> sig, submission |-> submission,
     agents |-> ag, metrics |-> m, weights |-> w]

Returned(sig) == [outcome |-> "returned", signature |-> sig]

Exhausted == [outcome |-> "exhausted", signature |-> NoSig]

\* The value a log...OnChain helper returns when its try block has thrown.
\* Here the thrown error leaves the helper instead (an error text stands
\* for the thrown state).
SwallowedValue_Rethrown(error) == error

\* catch (error) { logger.warn(...); return undefined }
SwallowedValue(error) == "none"

\* The try block shared by logCoordinationOnChain, logAnalysisOnChain,
\* logTaskOnChain and the on-chain part of actEvolveStrategy: getWallet, (no
\* wallet: return undefined), buildMemoTransaction, submitTransaction,
\* getMetrics, updateMetrics({totalTransactions + 1}), return signature; any
\* throw is caught, a warning is logged and undefined is returned.
LogOnChain(faults, m, sig) ==
    IF "getWallet" \in faults
    THEN [error |-> SwallowedValue("getWallet"), returned |-> NoSig,
          submission |-> NoSubmission, metrics |-> m]
    ELSE IF "walletMissing" \in faults
    THEN [error |-> "none", returned |-> NoSig,
          submission |-> NoSubmission, metrics |-> m]
    ELSE IF "buildMemoTransaction" \in faults
    THEN [error |-> SwallowedValue("buildMemoTransaction"), returned |-> NoSig,
          submission |-> NoSubmission, metrics |-> m]
    ELSE IF "submitTransaction" \in faults
    THEN [error |-> SwallowedValue("submitTransaction"), returned |-> NoSig,
          submission |-> Exhausted, metrics |-> m]
    ELSE IF "getMetrics" \in faults
    THEN [error |-> SwallowedValue("getMetrics"), returned |-> NoSig,
          submission |-> Returned(sig), metrics |-> m]
    ELSE IF "updateMetrics" \in faults
    THEN [error |-> SwallowedValue("updateMetrics"), returned |-> NoSig,
          submission |-> Returned(sig), metrics |-> m]
    ELSE [error |-> "none", returned |-> sig, submission |-> Returned(sig),
          metrics |-> [m EXCEPT !.totalTransactions = @ + 1]]

\* actCreateAgent: observe, factory.createAgent (saves the agent as CREATED),
\* status ACTIVE + saveAgent, getWallet, (no wallet: return without a
\* signature), buildMemoTransaction, submitTransaction, creationTx +
\* saveAgent, getMetrics, updateMetrics({totalTransactions + 1}). Nothing
\* here is caught: the first call that throws leaves the handler.
actCreateAgent(faults, ag, m, w, sig) ==
    LET created == Append(ag, NewAgent)
        active  == [created EXCEPT ![Len(created)].status = "ACTIVE"]
        withTx  == [active EXCEPT ![Len(active)].creationTx = sig]
    IN  IF "observe" \in faults
        THEN Handled("observe", NoSig, NoSubmission, ag, m, w)
        ELSE IF "createAgent" \in faults
        THEN Handled("createAgent", NoSig, NoSubmission, ag, m, w)
        ELSE IF "saveAgent" \in faults
        THEN Handled("saveAgent", NoSig, NoSubmission, created, m, w)
        ELSE IF "getWallet" \in faults
        THEN Handled("getWallet", NoSig, NoSubmission, active, m, w)
        ELSE IF "walletMissing" \in faults
        THEN Handled("none", NoSig, NoSubmission, active, m, w)
        ELSE IF "buildMemoTransaction" \in faults
        THEN Handled("buildMemoTransaction", NoSig, NoSubmission, active, m, w)
        ELSE IF "submitTransaction" \in faults
        THEN Handled("submitTransaction", NoSig, Exhausted, active, m, w)
        ELSE IF "saveAgentTx" \in faults
        THEN Handled("saveAgentTx", NoSig, Returned(sig), active, m, w)
        ELSE IF "getMetrics" \in faults
        THEN Handled("getMetrics", NoSig, Returned(sig), withTx, m, w)
        ELSE IF "updateMetrics" \in faults
        THEN Handled("updateMetrics", NoSig, Returned(sig), withTx, m, w)
        ELSE Handled("none", sig, Returned(sig), withTx,
                     [m EXCEPT !.totalTransactions = @ + 1], w)

\* The tail of coordinateAgents / analyzePerformance / actEvolveStrategy: the
\* on-chain log, whose value is the handler's transactionSignature.
AfterLogOnChain(faults, ag, m, w, sig) ==
    LET oc == LogOnChain(faults, m, sig)
    IN  Handled(oc.error, IF oc.error = "none" THEN oc.returned ELSE NoSig,
                oc.submission, ag, oc.metrics, w)

\* actCoordinateAgents: observe, then coordinator.coordinateAgents, which
\* builds reports and messages in memory and calls logCoordinationOnChain.
actCoordinateAgents(faults, ag, m, w, sig) ==
    IF "observe" \in faults
    THEN Handled("observe", NoSig, NoSubmission, ag, m, w)
    ELSE AfterLogOnChain(faults, ag, m, w, sig)

\* actAnalyzePerformance: observe, then coordinator.analyzePerformance, which
\* reads the metrics (outside any try) and calls logAnalysisOnChain.
actAnalyzePerformance(faults, ag, m, w, sig) ==
    IF "observe" \in faults
    THEN Handled("observe", NoSig, NoSubmission, ag, m, w)
    ELSE IF "getMetricsFirst" \in faults
    THEN Handled("getMetricsFirst", NoSig, NoSubmission, ag, m, w)
    ELSE AfterLogOnChain(faults, ag, m, w, sig)

\* A threshold that takes a success rate of exactly 0.5 as low too.
LowSuccessRate_AtMostHalf(m) ==
    /\ m.successfulActions + m.failedActions > 0
    /\ 2 * m.successfulActions <= m.successfulActions + m.failedActions

\* successRate < 0.5, with successRate = 1.0 when nothing was counted yet.
LowSuccessRate(m) ==
    /\ m.successfulActions + m.failedActions > 0
    /\ 2 * m.successfulActions < m.successfulActions + m.failedActions

\* actEvolveStrategy: getMetrics, the WAIT_AND_OBSERVE boost, getAllAgents,
\* the CREATE_AGENT or DELEGATE_TASK boost, then the on-chain log inside the
\* handler's own try / catch.
actEvolveStrategy(faults, ag, m, w, sig) ==
    LET w1 == IF LowSuccessRate(m)
              THEN updateWeights(w, "WAIT_AND_OBSERVE", TRUE) ELSE w
        w2 == IF Len(ag) < 3
              THEN updateWeights(w1, "CREATE_AGENT", TRUE) ELSE w1
        w3 == IF Len(ag) >= 3 /\ m.totalDecisions > 5
              THEN updateWeights(w2, "DELEGATE_TASK", TRUE) ELSE w2
    IN  IF "getMetricsFirst" \in faults
        THEN Handled("getMetricsFirst", NoSig, NoSubmission, ag, m, w)
        ELSE IF "getAllAgents" \in faults
        THEN Handled("getAllAgents", NoSig, NoSubmission, ag, m, w1)
        ELSE AfterLogOnChain(faults, ag, m, w3, sig)

\* The agents actDelegateTask may pick: ACTIVE or CREATED, no currentTask.
IdleChildren(ag) ==
    {i \in 1..Len(ag) : ag[i].status \in {"ACTIVE", "CREATED"}
                        /\ ~ag[i].currentTask}

Incremented_Down(count) == count - 1

\* agent.metadata.successCount += 1 / agent.metadata.failureCount += 1
Incremented(count) == count + 1

\* taskExecutor.executeTask(agent) for the picked agent, whose stored record
\* already has currentTask set. try: the role task, logTaskOnChain
\* (task.onChainTx), successCount += 1, currentTask cleared, saveAgent.
\* catch: failureCount += 1 on the same object, currentTask cleared,
\* saveAgent, whose throw leaves executeTask. The role tasks themselves save
\* agents only in the coordinator's sweep (lastActive and missionProgress of
\* agents read afresh), which writes none of the fields kept here.
executeTask(faults, ag, m, w, sig, pick) ==
    LET oc      == LogOnChain(faults, m, sig)
        done    == [ag EXCEPT ![pick].successCount = Incremented(@),
                              ![pick].currentTask = FALSE]
        failedEarly == [ag EXCEPT ![pick].failureCount = Incremented(@),
                                  ![pick].currentTask = FALSE]
        failedLate  == [done EXCEPT ![pick].failureCount = Incremented(@)]
    IN  IF "roleTask" \in faults
        THEN IF "saveAgentFailed" \in faults
             THEN Handled("saveAgentFailed", NoSig, NoSubmission, ag, m, w)
             ELSE Handled("none", NoSig, NoSubmission, failedEarly, m, w)
        ELSE IF oc.error # "none"
        THEN IF "saveAgentFailed" \in faults
             THEN Handled("saveAgentFailed", NoSig, oc.submission, ag, oc.metrics, w)
             ELSE Handled("none", NoSig, oc.submission, failedEarly, oc.metrics, w)
        ELSE IF "saveAgentDone" \in faults
        THEN IF "saveAgentFailed" \in faults
             THEN Handled("saveAgentFailed", NoSig, oc.submission, ag, oc.metrics, w)
             ELSE Handled("none", oc.returned, oc.submission, failedLate, oc.metrics, w)
        ELSE Handled("none", oc.returned, oc.submission, done, oc.metrics, w)

\* actDelegateTask: getAllAgents, (no idle child: return), currentTask set +
\* saveAgent, executeTask, transactionSignature: taskResult.onChainTx.
actDelegateTask(faults, ag, m, w, sig, pick) ==
    IF "getAllAgents" \in faults
    THEN Handled("getAllAgents", NoSig, NoSubmission, ag, m, w)
    ELSE IF IdleChildren(ag) = {}
    THEN Handled("none", NoSig, NoSubmission, ag, m, w)
    ELSE IF "saveAgent" \in faults
    THEN Handled("saveAgent", NoSig, NoSubmission, ag, m, w)
    ELSE executeTask(faults, [ag EXCEPT ![pick].currentTask = TRUE], m, w, sig, pick)

\* The switch of act over decision.type.
Dispatch(type, faults, ag, m, w, sig, pick) ==
    IF type = "CREATE_AGENT" THEN actCreateAgent(faults, ag, m, w, sig)
    ELSE IF type = "COORDINATE_AGENTS" THEN actCoordinateAgents(faults, ag, m, w, sig)
    ELSE IF type = "EVOLVE_STRATEGY" THEN actEvolveStrategy(faults, ag, m, w, sig)
    ELSE IF type = "DELEGATE_TASK" THEN actDelegateTask(faults, ag, m, w, sig, pick)
    ELSE IF type = "ANALYZE_PERFORMANCE" THEN actAnalyzePerformance(faults, ag, m, w, sig)
    ELSE Handled("none", NoSig, NoSubmission, ag, m, w)

\* Every way the handler of a decision type can end: over the call sites
\* that throw and over the idle child that is picked.
Outcomes(type, ag, m, w, sig) ==
    {Dispatch(type, faults, ag, m, w, sig, pick) :
        faults \in SUBSET CallSites(type),
        pick \in IF IdleChildren(ag) = {} THEN {0} ELSE IdleChildren(ag)}

\* createDecision: id `decision_${randomBytes(8).toString('hex')}`, a fresh
\* id at every call: the n-th call draws id n.
createDecision(option, n) == [option EXCEPT !.id = n]

\* memory.logDecision(decision, result): one entry appended to the log.
logDecision(log, d, r) ==
    Append(log, [decision |-> d, result |-> r])

\* The aggregate before the first cycle; evolutionScore in thousandths.
InitialMetrics ==
    [totalTransactions |-> 0, totalDecisions |-> 0, successfulActions |-> 0,
     failedActions |-> 0, evolutionScore |-> 500]

\* Math.min(1.0, metrics.evolutionScore + (success ? 0.01 : -0.005))
NewScore(score, success) ==
    LET next == score + (IF success THEN 10 ELSE -5)
    IN  IF next > 1000 THEN 1000 ELSE next

\* The statements of the try block of startAutonomyLoop, in order.
PhaseAfter(phase) ==
    CASE phase = "observe" -> "reason"
      [] phase = "reason"  -> "decide"
      [] phase = "decide"  -> "act"
      [] phase = "act"     -> "log"
      [] phase = "log"     -> "evolve"
      [] phase = "evolve"  -> "metrics"
      [] phase = "metrics" -> "wait"

\* A phase that gives up when the run flag is cleared.
NextPc_StopInterrupts(phase, threw) ==
    IF ~running THEN "check"
    ELSE IF threw THEN "cooldown" ELSE PhaseAfter(phase)

\* A loop test that ignores the run flag: while (true).
LoopContinues_Always(flag) == TRUE

\* while (this.running)
LoopContinues(flag) == flag

\* A loop whose try / catch is around the while statement: an exception
\* ends the loop.
NextPc_CatchOutside(phase, threw) ==
    IF threw THEN "exited" ELSE PhaseAfter(phase)

\* try { phases } catch (error) { logger.error(...); sleep(5000) }, inside
\* the while statement.
NextPc(phase, threw) ==
    IF threw THEN "cooldown" ELSE PhaseAfter(phase)

\* A phase ends: the next statement, or the catch block when it threw.
PhaseEnds(phase, threw) == pc' = NextPc(phase, threw)

\* No evolution event was appended.
NoEvent == [made |-> FALSE]

\* getWeightsSnapshot(): a new record with the entries of decisionWeights.
getWeightsSnapshot(weights) == [t \in DOMAIN weights |-> weights[t]]

EvolutionEventOf_NoTrigger(r, weightsBefore, weightsAfter) ==
    [made |-> TRUE, triggeredBy |-> 0, type |-> r.decision.type,
     success |-> r.success, before |-> weightsBefore, after |-> weightsAfter]

\* The EvolutionEvent evolve builds from the result and the two snapshots;
\* the decision type and the outcome are what its description names.
EvolutionEventOf(r, weightsBefore, weightsAfter) ==
    [made |-> TRUE, triggeredBy |-> r.decision.id, type |-> r.decision.type,
     success |-> r.success, before |-> weightsBefore, after |-> weightsAfter]

\* evolve up to the end of its if statement: the snapshot before,
\* updateWeights, the snapshot after, and, when Math.random() < 0.5 and
\* logEvolution does not throw, the event appended to the evolution log.
EvolveLogs(r, weights, logged) ==
    IF logged
    THEN EvolutionEventOf(r, getWeightsSnapshot(weights),
             getWeightsSnapshot(updateWeights(weights, r.decision.type,
                                              r.success)))
    ELSE NoEvent

\* The end of the loop body: decision and result go out of scope.
BodyEnds ==
    /\ pc' = "check"
    /\ decision' = NoDecision
    /\ result' = NoActionResult
    /\ acted' = [error |-> "none", submission |-> NoSubmission]
    /\ appended' = 0
    /\ evolved' = NoEvent

\* startAutonomyLoop up to the while statement.
StartAutonomyLoop ==
    /\ pc = "idle"
    /\ running' = TRUE
    /\ pc' = "check"
    /\ UNCHANGED <<cycle, decision, result, decisionLog, agents, metrics,
                   acted, appended>>
    /\ UNCHANGED <<engineVars, submitVars, otherVars>>

\* stopAutonomyLoop, called from outside the loop at any moment.
StopAutonomyLoop ==
    /\ running
    /\ running' = FALSE
    /\ UNCHANGED <<pc, cycle, decision, result, decisionLog, agents, metrics,
                   acted, appended>>
    /\ UNCHANGED <<engineVars, submitVars, otherVars>>

\* while (this.running), true: a cycle begins.
BeginCycle ==
    /\ pc = "check"
    /\ LoopContinues(running)
    /\ cycle < MaxCycles
    /\ cycle' = cycle + 1
    /\ pc' = "observe"
    /\ UNCHANGED <<running, decision, result, decisionLog, agents, metrics,
                   acted, appended>>
    /\ UNCHANGED <<engineVars, submitVars, otherVars>>

\* while (this.running), false: the loop is left.
LoopExit ==
    /\ pc = "check"
    /\ ~LoopContinues(running)
    /\ pc' = "exited"
    /\ UNCHANGED <<running, cycle, decision, result, decisionLog, agents,
                   metrics, acted, appended>>
    /\ UNCHANGED <<engineVars, submitVars, otherVars>>

\* observe: reads of the store and the wallets; a read may throw.
Observe ==
    /\ pc = "observe"
    /\ \E threw \in BOOLEAN : PhaseEnds("observe", threw)
    /\ UNCHANGED <<running, cycle, decision, result, decisionLog, agents,
                   metrics, acted, appended>>
    /\ UNCHANGED <<engineVars, submitVars, otherVars>>

\* reason: generateOptions and selectDecision; any of the six options can be
\* the recommendation.
Reason ==
    /\ pc = "reason"
    /\ \E threw \in BOOLEAN :
         /\ PhaseEnds("reason", threw)
         /\ IF threw THEN UNCHANGED decision
            ELSE \E t \in DecisionType : decision' = [id |-> 0, type |-> t]
    /\ UNCHANGED <<running, cycle, result, decisionLog, agents, metrics,
                   acted, appended>>
    /\ UNCHANGED <<engineVars, submitVars, otherVars>>

\* decide: createDecision gives the recommendation an id.
Decide ==
    /\ pc = "decide"
    /\ \E threw \in BOOLEAN :
         /\ PhaseEnds("decide", threw)
         /\ IF threw THEN UNCHANGED decision
            ELSE decision' = createDecision(decision, cycle)
    /\ UNCHANGED <<running, cycle, result, decisionLog, agents, metrics,
                   acted, appended>>
    /\ UNCHANGED <<engineVars, submitVars, otherVars>>

\* act: the handler of decision.type runs inside try / catch; what it
\* returns becomes a successful ActionResult, what it throws a failed one.
Act ==
    /\ pc = "act"
    /\ \E h \in Outcomes(decision.type, agents, metrics, decisionWeights,
                          <<"sig", cycle>>) :
         /\ result' = IF h.error = "none"
                      THEN SuccessResult(decision, h.transactionSignature)
                      ELSE FailedResult(decision, h.error)
         /\ agents' = h.agents
         /\ metrics' = h.metrics
         /\ decisionWeights' = h.weights
         /\ acted' = [error |-> h.error, submission |-> h.submission]
    /\ PhaseEnds("act", FALSE)
    /\ UNCHANGED <<running, cycle, decision, decisionLog, appended>>
    /\ UNCHANGED <<engineRest, submitVars, otherVars>>

\* log: memory.logDecision(decision, result), which may throw.
Log ==
    /\ pc = "log"
    /\ \E threw \in BOOLEAN :
         /\ PhaseEnds("log", threw)
         /\ IF threw THEN UNCHANGED <<decisionLog, appended>>
            ELSE /\ decisionLog' = logDecision(decisionLog, decision, result)
                 /\ appended' = appended + 1
    /\ UNCHANGED <<running, cycle, decision, result, agents, metrics, acted>>
    /\ UNCHANGED <<engineVars, submitVars, otherVars>>

\* evolve: updateWeights, then (with probability 0.5) logEvolution, then
\* getMetrics and updateMetrics({evolutionScore}); a store call may throw,
\* before or after the event is appended.
Evolve ==
    /\ pc = "evolve"
    /\ decisionWeights' =
         updateWeights(decisionWeights, result.decision.type, result.success)
    /\ \E threw \in BOOLEAN, logged \in BOOLEAN :
         /\ PhaseEnds("evolve", threw)
         /\ evolved' = EvolveLogs(result, decisionWeights, logged)
         /\ metrics' = IF threw THEN metrics
                       ELSE [metrics EXCEPT
                               !.evolutionScore = NewScore(@, result.success)]
    /\ UNCHANGED <<running, cycle, decision, result, decisionLog, agents,
                   acted, appended>>
    /\ UNCHANGED <<engineRest, submitVars, parked, selection, store, memory,
                   factory, strategy, callVars>>

CycleCounted_AsSuccess(m, success) ==
    [m EXCEPT !.totalDecisions = @ + 1, !.successfulActions = @ + 1]

\* The aggregate updateMetrics writes: totalDecisions + 1 and, by success,
\* successfulActions + 1 or failedActions + 1.
CycleCounted(m, success) ==
    [m EXCEPT !.totalDecisions = @ + 1,
              !.successfulActions = @ + (IF success THEN 1 ELSE 0),
              !.failedActions = @ + (IF success THEN 0 ELSE 1)]

\* updateMetrics(cycleTime, success): getMetrics, then one updateMetrics.
UpdateMetrics ==
    /\ pc = "metrics"
    /\ \E threw \in BOOLEAN :
         /\ PhaseEnds("metrics", threw)
         /\ metrics' = IF threw THEN metrics
                       ELSE CycleCounted(metrics, result.success)
    /\ UNCHANGED <<running, cycle, decision, result, decisionLog, agents,
                   acted, appended>>
    /\ UNCHANGED <<engineVars, submitVars, otherVars>>

\* if (waitTime > 0 && this.running) sleep(waitTime); back to the while test.
Wait ==
    /\ pc = "wait"
    /\ BodyEnds
    /\ UNCHANGED <<running, cycle, decisionLog, agents, metrics>>
    /\ UNCHANGED <<engineVars, submitVars, parked, selection, store, memory,
                   factory, strategy, callVars>>

\* catch block: sleep(5000); back to the while test.
Cooldown ==
    /\ pc = "cooldown"
    /\ BodyEnds
    /\ UNCHANGED <<running, cycle, decisionLog, agents, metrics>>
    /\ UNCHANGED <<engineVars, submitVars, parked, selection, store, memory,
                   factory, strategy, callVars>>

\* The statements at which an invocation of the loop is inside a cycle.
InCycle == {"observe", "reason", "decide", "act", "log", "evolve", "metrics",
            "wait", "cooldown"}

\* No second invocation of startAutonomyLoop exists.
NotStarted ==
    [pc |-> "none", decision |-> NoDecision, result |-> NoActionResult,
     acted |-> [error |-> "none", submission |-> NoSubmission], appended |-> 0]

\* The position and the locals of the invocation that is running.
Invocation ==
    [pc |-> pc, decision |-> decision, result |-> result, acted |-> acted,
     appended |-> appended]

\* startAutonomyLoop called again while an invocation is suspended inside its
\* loop: nothing in the method tests whether a loop is already running. The
\* flag is set (again) and a second while loop starts on the same
\* controller; the first invocation stays suspended at its await.
StartAutonomyLoopAgain ==
    /\ pc \in InCycle
    /\ parked = NotStarted
    /\ running' = TRUE
    /\ parked' = Invocation
    /\ pc' = "check"
    /\ decision' = NoDecision
    /\ result' = NoActionResult
    /\ acted' = [error |-> "none", submission |-> NoSubmission]
    /\ appended' = 0
    /\ UNCHANGED <<cycle, decisionLog, agents, metrics>>
    /\ UNCHANGED <<engineVars, submitVars, selection, store, restVars>>

\* The running invocation awaits and the event loop resumes the other one.
ResumeOther ==
    /\ parked # NotStarted
    /\ parked' = Invocation
    /\ pc' = parked.pc
    /\ decision' = parked.decision
    /\ result' = parked.result
    /\ acted' = parked.acted
    /\ appended' = parked.appended
    /\ UNCHANGED <<running, cycle, decisionLog, agents, metrics>>
    /\ UNCHANGED <<engineVars, submitVars, selection, store, restVars>>

Next ==
    \/ StartAutonomyLoop
    \/ StopAutonomyLoop
    \/ BeginCycle
    \/ LoopExit
    \/ Observe
    \/ Reason
    \/ Decide
    \/ Act
    \/ Log
    \/ Evolve
    \/ UpdateMetrics
    \/ Wait
    \/ Cooldown

\* ---------------------------------------------------------------------
\* The durable memory store: one collection file and its write path
\* (serialize, write to a temporary location, copy the current file to a
\* backup location, atomically replace the live location).
\* ---------------------------------------------------------------------

\* The number of writes one behaviour makes.
MaxWrites == 3

\* A location holds no file; reading it gives null.
Absent == [version |-> 0, complete |-> TRUE]

\* The serialized record set of a version, as far as it has been written.
Content(version, complete) == [version |-> version, complete |-> complete]

\* A store before its first write.
EmptyCollection ==
    [pc |-> "idle", live |-> Absent, temp |-> Absent, backup |-> Absent,
     previous |-> Absent, pending |-> 0, writes |-> 0, outcome |-> "none",
     load |-> [done |-> FALSE]]

\* A write that goes to the live location itself.
WriteTarget_Live == "live"

\* The location the serialized data is written to.
WriteTarget == "temp"

\* write(collection, data): the data is serialized; the live content at this
\* moment is the previous content.
WriteBegins ==
    /\ store.pc = "idle"
    /\ store.writes < MaxWrites
    /\ store' = [store EXCEPT !.pc = "write", !.previous = store.live,
                               !.pending = store.writes + 1,
                               !.writes = @ + 1, !.outcome = "none"]
    /\ UNCHANGED <<engineVars, submitVars, loopVars, parked, selection, restVars>>

\* The write to the temporary location has begun: part of the data is there.
TempWriteStarts ==
    /\ store.pc = "write"
    /\ store' = [store EXCEPT !.pc = "writing",
                               ![WriteTarget] = Content(store.pending, FALSE)]
    /\ UNCHANGED <<engineVars, submitVars, loopVars, parked, selection, restVars>>

\* The write to the temporary location is complete.
TempWriteEnds ==
    /\ store.pc = "writing"
    /\ store' = [store EXCEPT !.pc = "backup",
                               ![WriteTarget] = Content(store.pending, TRUE)]
    /\ UNCHANGED <<engineVars, submitVars, loopVars, parked, selection, restVars>>

\* The copy of the current file to the backup location has begun; there is
\* nothing to copy before the first write.
BackupCopyStarts ==
    /\ store.pc = "backup"
    /\ store' = IF store.live = Absent THEN [store EXCEPT !.pc = "replace"]
                ELSE [store EXCEPT !.pc = "copying",
                                   !.backup = Content(store.live.version, FALSE)]
    /\ UNCHANGED <<engineVars, submitVars, loopVars, parked, selection, restVars>>

\* The backup copy is complete.
BackupCopyEnds ==
    /\ store.pc = "copying"
    /\ store' = [store EXCEPT !.pc = "replace", !.backup = store.live]
    /\ UNCHANGED <<engineVars, submitVars, loopVars, parked, selection, restVars>>

\* The live location is replaced by the temporary one in one step.
Replace ==
    /\ store.pc = "replace"
    /\ store' = [store EXCEPT !.pc = "idle", !.live = store.temp,
                               !.temp = Absent, !.outcome = "written"]
    /\ UNCHANGED <<engineVars, submitVars, loopVars, parked, selection, restVars>>

\* The steps of the write path at which a write can fail or the process stop.
WriteSteps == {"write", "writing", "backup", "copying", "replace"}

\* An I/O failure aborts the write: the caller receives PersistenceError and
\* the files stay as the failed step left them.
WriteFails ==
    /\ store.pc \in WriteSteps
    /\ store' = [store EXCEPT !.pc = "idle", !.outcome = "PersistenceError"]
    /\ UNCHANGED <<engineVars, submitVars, loopVars, parked, selection, restVars>>

\* The process stops in the middle of the write path and is started again.
ProcessStops ==
    /\ store.pc \in WriteSteps
    /\ store' = [store EXCEPT !.pc = "idle", !.outcome = "stopped"]
    /\ UNCHANGED <<engineVars, submitVars, loopVars, parked, selection, restVars>>

\* A file that exists and can be read and passes schema validation.
Readable(file) == file # Absent /\ file.complete

\* What load takes from a backup that is readable, when the live file is not.
RecoveredFrom_Nothing(backup) == Absent

RecoveredFrom(backup) == backup

\* load of one collection: the live file if there is none or it is readable;
\* otherwise the most recent backup; if that fails too, the collection is
\* initialized empty and the event is reported. load does not raise. The
\* files as load found them are kept with the result.
LoadCollection(live, backup) ==
    [done |-> TRUE, live |-> live, backup |-> backup, raised |-> FALSE,
     content  |-> IF live = Absent \/ Readable(live) THEN live
                  ELSE IF Readable(backup) THEN RecoveredFrom(backup)
                  ELSE Absent,
     reported |-> live # Absent /\ ~Readable(live) /\ ~Readable(backup)]

\* A fresh store instance loads the collection.
Load ==
    /\ store.pc = "idle"
    /\ store' = [store EXCEPT !.load = LoadCollection(store.live, store.backup)]
    /\ UNCHANGED <<engineVars, submitVars, loopVars, parked, selection, restVars>>

\* The live file is damaged on disk while no write is in progress.
LiveCorrupted ==
    /\ store.pc = "idle"
    /\ Readable(store.live)
    /\ store' = [store EXCEPT !.live = Content(store.live.version, FALSE)]
    /\ UNCHANGED <<engineVars, submitVars, loopVars, parked, selection, restVars>>

\* The backup file is damaged on disk while no write is in progress.
BackupCorrupted ==
    /\ store.pc = "idle"
    /\ Readable(store.backup)
    /\ store' = [store EXCEPT !.backup = Content(store.backup.version, FALSE)]
    /\ UNCHANGED <<engineVars, submitVars, loopVars, parked, selection, restVars>>

NextStore ==
    \/ WriteBegins
    \/ TempWriteStarts
    \/ TempWriteEnds
    \/ BackupCopyStarts
    \/ BackupCopyEnds
    \/ Replace
    \/ WriteFails
    \/ ProcessStops

\* ---- MemorySystem: entities, decision log, evolution log ----

MaxSaves == 3

\* An optional field that is not set.
Undefined == "undefined"

NumberText_LastDigit(n) == <<n % 10>>

\* JSON text of a number: its decimal digits.
RECURSIVE NumberText(_)
NumberText(n) ==
    IF n < 10 THEN <<n>> ELSE Append(NumberText(n \div 10), n % 10)

RECURSIVE ParseNumber(_)
ParseNumber(text) ==
    IF Len(text) = 0 THEN 0
    ELSE 10 * ParseNumber(SubSeq(text, 1, Len(text) - 1)) + text[Len(text)]

\* The fields of the records, in the order they are written.
AgentFields ==
    <<"id", "role", "mission", "status", "successCount", "failureCount",
      "currentTask">>
DecisionFields == <<"id", "type", "timestamp", "confidence">>
ResultFields == <<"success", "transactionSignature", "error">>
EvolutionFields == <<"id", "timestamp", "type", "triggeredBy">>
NumberFields == {"successCount", "failureCount", "timestamp", "confidence"}

BooleanFields == {"success"}
OptionalFields == {"currentTask", "transactionSignature", "error"}

\* Whether the record has a value for the field.
IsSet(record, f) == f \notin OptionalFields \/ record[f] # Undefined

\* JSON text of one value.
ValueText(f, value) ==
    IF f \in NumberFields THEN NumberText(value)
    ELSE IF f \in BooleanFields THEN (IF value THEN "true" ELSE "false")
    ELSE value

\* The value a JSON text stands for.
ParseValue(f, text) ==
    IF f \in NumberFields THEN ParseNumber(text)
    ELSE IF f \in BooleanFields THEN text = "true"
    ELSE text

\* JSON text of one record: the fields that are set, each with its name and
\* the text of its value; a field that is undefined is left out.
Stringify(record, fields) ==
    The({[i \in DOMAIN present |->
             <<present[i], ValueText(present[i], record[present[i]])>>] :
         present \in {SelectSeq(fields, LAMBDA f : IsSet(record, f))}})

\* The record a JSON text stands for: a field the text lacks is undefined.
Parse(text, fields) ==
    [f \in {fields[i] : i \in DOMAIN fields} |->
        IF \E i \in DOMAIN text : text[i][1] = f
        THEN ParseValue(f, text[CHOOSE i \in DOMAIN text : text[i][1] = f][2])
        ELSE Undefined]

\* The agents, decision pairs and evolution events the callers save.
SavedAgents ==
    [id : {"agent_1", "agent_2"}, role : {"EXPLORER"},
     mission : {"Test mission"}, status : {"ACTIVE"},
     successCount : {0, 12}, failureCount : {105},
     currentTask : {Undefined, "task_1"}]
LoggedDecisions ==
    [id : {"decision_1", "decision_2"}, type : {"CREATE_AGENT"},
     timestamp : {1700}, confidence : {0}]
LoggedResults ==
    [success : {FALSE}, transactionSignature : {Undefined},
     error : {"Failed"}]
    \cup [success : {TRUE}, transactionSignature : {"sig_1"},
          error : {Undefined}]
LoggedEvents ==
    [id : {"evolution_10", "evolution_230"}, timestamp : {230},
     type : {"STRATEGY_UPDATE"}, triggeredBy : {"decision_1"}]

EmptyMemory ==
    [agents |-> <<>>, decisions |-> <<>>, evolution |-> <<>>,
     files |-> [agents |-> <<>>, decisions |-> <<>>, evolution |-> <<>>],
     fresh |-> [loaded |-> FALSE], saves |-> 0]

\* The agents map after set(agent.id, agent): the entry of the id replaced
\* in place, a new id added at the end.
WithAgent(list, agent) ==
    IF \E i \in DOMAIN list : list[i].id = agent.id
    THEN [i \in DOMAIN list |-> IF list[i].id = agent.id THEN agent ELSE list[i]]
    ELSE Append(list, agent)

\* getAgent: the entry of the id, or null.
getAgent(list, id) ==
    IF \E i \in DOMAIN list : list[i].id = id
    THEN list[CHOOSE i \in DOMAIN list : list[i].id = id]
    ELSE "null"

StringifyPair(pair) ==
    [decision |-> Stringify(pair.decision, DecisionFields),
     result |-> Stringify(pair.result, ResultFields)]

ParsePair(text) ==
    [decision |-> Parse(text.decision, DecisionFields),
     result |-> Parse(text.result, ResultFields)]

\* saveAgent: the map is updated and the agents file rewritten.
SaveAgent ==
    /\ memory.saves < MaxSaves
    /\ \E agent \in SavedAgents :
         \E list \in {WithAgent(memory.agents, agent)} :
           memory' = [memory EXCEPT
               !.agents = list,
               !.files.agents = [i \in DOMAIN list |->
                                    Stringify(list[i], AgentFields)],
               !.saves = @ + 1]
    /\ UNCHANGED <<engineVars, submitVars, loopVars, parked, selection, store,
                   factory, evolved, strategy, callVars>>

\* logDecision: the pair is appended and the decisions file rewritten.
LogDecisionPair ==
    /\ memory.saves < MaxSaves
    /\ \E d \in LoggedDecisions, r \in LoggedResults :
         \E list \in {Append(memory.decisions, [decision |-> d, result |-> r])} :
           memory' = [memory EXCEPT
               !.decisions = list,
               !.files.decisions = [i \in DOMAIN list |-> StringifyPair(list[i])],
               !.saves = @ + 1]
    /\ UNCHANGED <<engineVars, submitVars, loopVars, parked, selection, store,
                   factory, evolved, strategy, callVars>>

\* logEvolution: the event is appended and the evolution file rewritten.
LogEvolutionEvent ==
    /\ memory.saves < MaxSaves
    /\ \E event \in LoggedEvents :
         \E list \in {Append(memory.evolution, event)} :
           memory' = [memory EXCEPT
               !.evolution = list,
               !.files.evolution = [i \in DOMAIN list |->
                                       Stringify(list[i], EvolutionFields)],
               !.saves = @ + 1]
    /\ UNCHANGED <<engineVars, submitVars, loopVars, parked, selection, store,
                   factory, evolved, strategy, callVars>>

\* new MemorySystem(path) and load(): a fresh instance reads the files. What
\* the saving instance held at that time is kept beside it.
LoadFresh ==
    /\ memory.saves > 0
    /\ memory' = [memory EXCEPT !.fresh =
         [loaded |-> TRUE,
          agents |-> [i \in DOMAIN memory.files.agents |->
                         Parse(memory.files.agents[i], AgentFields)],
          decisions |-> [i \in DOMAIN memory.files.decisions |->
                            ParsePair(memory.files.decisions[i])],
          evolution |-> [i \in DOMAIN memory.files.evolution |->
                            Parse(memory.files.evolution[i], EvolutionFields)],
          saved |-> [agents |-> memory.agents,
                     decisions |-> memory.decisions,
                     evolution |-> memory.evolution]]]
    /\ UNCHANGED <<engineVars, submitVars, loopVars, parked, selection, store,
                   factory, evolved, strategy, callVars>>

NextMemory ==
    \/ SaveAgent
    \/ LogDecisionPair
    \/ LogEvolutionEvent
    \/ LoadFresh

\* ---- AgentFactory ----

MaxActive == 3

\* Object.values(AgentRole), in the order of the enum.
AgentRoles == <<"EXPLORER", "BUILDER", "ANALYST", "COORDINATOR", "GUARDIAN">>

\* a + b exactly.
LAdd(a, b) ==
    <<a[1] + b[1] + ((a[2] + b[2]) \div Limb), (a[2] + b[2]) % Limb>>

\* n * x exactly, for a count n.
RECURSIVE Times(_, _)
Times(x, n) == IF n = 0 THEN <<0, 0>> ELSE LAdd(Times(x, n - 1), x)

\* Math.floor(random * n) for a count 1 <= n <= 7: the exact product is
\* rounded to 53 significant bits, ties to even (below 8 that drops up to
\* 7 bits of the unit 2^-57), and the integer part is taken.
FloorOfProduct(random, n) ==
    LET x   == Times(random, n)
        d   == IF x[1] >= 2^30 THEN 7 ELSE IF x[1] >= 2^29 THEN 6
               ELSE DropBits(x[1])
        p   == 2^d
        r   == x[2] % p
        odd == ((x[2] \div p) % 2) = 1
        up  == d > 0 /\ (2 * r > p \/ (2 * r = p /\ odd))
        lo  == x[2] - r + (IF up THEN p ELSE 0)
        hi  == IF lo >= Limb THEN x[1] + 1 ELSE x[1]
    IN  hi \div 2^28

\* roleCounts.get(role): the agents of the snapshot that have the role.
RoleCount(active, role) ==
    Cardinality({i \in DOMAIN active : active[i] = role})

\* Math.min(...roleCounts.values())
MinCount(active) ==
    CHOOSE c \in {RoleCount(active, AgentRoles[k]) : k \in DOMAIN AgentRoles} :
        \A k \in DOMAIN AgentRoles : c <= RoleCount(active, AgentRoles[k])

Underrepresented_All(active) == AgentRoles

\* The roles whose count is the minimum, in the order of the map.
Underrepresented(active) ==
    SelectSeq(AgentRoles, LAMBDA role : RoleCount(active, role) = MinCount(active))

\* A selection that does not look at the counts.
selectRole_AnyRole(active, random) ==
    AgentRoles[FloorOfProduct(random, Len(AgentRoles)) + 1]

\* selectRole(context), with the value Math.random() returns.
selectRole(active, random) ==
    Underrepresented(active)[
        FloorOfProduct(random, Len(Underrepresented(active))) + 1]

\* context.activeAgents: the roles of up to MaxActive agents.
RECURSIVE Snapshots(_)
Snapshots(n) ==
    IF n = 0 THEN {<<>>}
    ELSE Snapshots(n - 1)
         \cup {Append(s, AgentRoles[k]) :
                  s \in {t \in Snapshots(n - 1) : Len(t) = n - 1},
                  k \in DOMAIN AgentRoles}

NoRole == [made |-> FALSE]

NoCreation == [made |-> FALSE]

MaxCreateCalls == 3

\* The ids generateAgentId draws (randomBytes(8): a draw may repeat), the
\* roles createAgent is called with, and the mission texts generateMission
\* makes for a role (a template without a placeholder gives the same text
\* again).
AgentIds == {"agent_0a", "agent_0b", "agent_0c"}
CreatedRoles == {"EXPLORER", "GUARDIAN"}
Missions(role) ==
    IF role = "EXPLORER"
    THEN {"Scout for new blockchain protocols and tools",
          "Analyze DeFi opportunities on Solana devnet"}
    ELSE {"Monitor wallet balances and request airdrops when needed",
          "Detect and respond to anomalous agent behavior"}

EmptyFactory ==
    [selected |-> NoRole, created |-> NoCreation, agents |-> <<>>,
     wallets |-> {}, calls |-> 0]

IdExists(stored, agentId) == \E i \in DOMAIN stored : stored[i].id = agentId

Duplicate_Never(stored, role, mission) == FALSE

\* allAgents.find((a) => a.role === role && a.mission === mission)
Duplicate(stored, role, mission) ==
    \E i \in DOMAIN stored : stored[i].role = role /\ stored[i].mission = mission

\* createAgent(role, context, creatorId) on the stored agents and wallets,
\* with the id and mission drawn and the calls in faults throwing:
\* ensureUniqueness (getAgent, getAllAgents), wallet.createWallet (which
\* saves the wallet), memory.saveAgent. The catch logs and rethrows. The
\* result is what the call threw ("none": it returned), and the store.
createAgent(stored, wallets, agentId, role, mission, faults) ==
    IF "getAgent" \in faults
    THEN [threw |-> "getAgent", agents |-> stored, wallets |-> wallets]
    ELSE IF IdExists(stored, agentId)
    THEN [threw |-> "already exists", agents |-> stored, wallets |-> wallets]
    ELSE IF "getAllAgents" \in faults
    THEN [threw |-> "getAllAgents", agents |-> stored, wallets |-> wallets]
    ELSE IF Duplicate(stored, role, mission)
    THEN [threw |-> "identical role-mission", agents |-> stored,
          wallets |-> wallets]
    ELSE IF "createWallet" \in faults
    THEN [threw |-> "createWallet", agents |-> stored, wallets |-> wallets]
    ELSE IF "saveAgent" \in faults
    THEN [threw |-> "saveAgent", agents |-> stored,
          wallets |-> wallets \cup {agentId}]
    ELSE [threw |-> "none",
          agents |-> WithAgent(stored, [id |-> agentId, role |-> role,
                                        mission |-> mission]),
          wallets |-> wallets \cup {agentId}]

\* One call of selectRole, on a factory that has created nothing yet.
SelectRoleCall ==
    /\ factory.calls = 0
    /\ \E active \in Snapshots(MaxActive), random \in RandomDraws :
         factory' = [factory EXCEPT !.selected =
             [made |-> TRUE, active |-> active, random |-> random,
              role |-> selectRole(active, random)]]
    /\ UNCHANGED <<engineVars, submitVars, loopVars, parked, selection, store,
                   memory, evolved, strategy, callVars>>

\* One call of createAgent.
CreateAgentCall ==
    /\ factory.calls < MaxCreateCalls
    /\ \E agentId \in AgentIds, role \in CreatedRoles,
          faults \in SUBSET {"getAgent", "getAllAgents", "createWallet",
                             "saveAgent"} :
         \E mission \in Missions(role) :
           \E c \in {createAgent(factory.agents, factory.wallets, agentId,
                                  role, mission, faults)} :
             factory' = [selected |-> NoRole,
                         created |-> [made |-> TRUE, id |-> agentId,
                                      threw |-> c.threw,
                                      agents |-> factory.agents,
                                      wallets |-> factory.wallets],
                         agents |-> c.agents, wallets |-> c.wallets,
                         calls |-> factory.calls + 1]
    /\ UNCHANGED <<engineVars, submitVars, loopVars, parked, selection, store,
                   memory, evolved, strategy, callVars>>

NextFactory ==
    \/ SelectRoleCall
    \/ CreateAgentCall

\* ---- actCreateAgent on the factory: observe, selectRole, createAgent ----

\* The number of CREATE_AGENT actions of one behaviour.
MaxHandled == 6

\* The ids generateAgentId draws: the n-th stored agent has the n-th (an
\* id drawn by an action that failed may be drawn again), and a draw may
\* repeat the first.
HandlerIds == <<"agent_01", "agent_02", "agent_03", "agent_04", "agent_05",
                "agent_06", "agent_07">>

\* The missions generateMission makes for a role: its templates by number.
RoleMissions(role) == {<<role, 1>>, <<role, 2>>}

\* The calls that throw in one action: none, observe, the createWallet or
\* the saveAgent of createAgent, or the saveAgent that sets the agent ACTIVE.
HandlerFaults ==
    {{}, {"observe"}, {"createWallet"}, {"saveAgent"}, {"saveAgentActive"}}

\* observe: the roles of the stored agents whose status is ACTIVE or
\* CREATED. createAgent stores an agent as CREATED, actCreateAgent sets it
\* ACTIVE, and nothing here sets another status.
ActiveRoles(stored) == [i \in DOMAIN stored |-> stored[i].role]

\* One CREATE_AGENT action up to the agent being stored: observe,
\* selectRole on what it observed, createAgent, saveAgent (ACTIVE). The
\* steps after it (the on-chain log, creationTx) add and remove no agent.
CreateAgentHandled ==
    /\ factory.calls < MaxHandled
    /\ \E random \in RandomDraws, faults \in HandlerFaults, redrawn \in BOOLEAN :
         \E active \in {ActiveRoles(factory.agents)} :
           \E role \in {selectRole(active, random)} :
             \E mission \in RoleMissions(role),
                agentId \in {HandlerIds[IF redrawn THEN 1
                                        ELSE Len(factory.agents) + 1]} :
               \E c \in {IF "observe" \in faults
                         THEN [threw |-> "observe", agents |-> factory.agents,
                               wallets |-> factory.wallets]
                         ELSE createAgent(factory.agents, factory.wallets,
                                          agentId, role, mission, faults)} :
                 factory' =
                   [selected |-> NoRole,
                    created |-> [made |-> TRUE, id |-> agentId,
                                 threw |-> IF c.threw = "none"
                                              /\ "saveAgentActive" \in faults
                                           THEN "saveAgentActive" ELSE c.threw,
                                 agents |-> <<>>, wallets |-> {}],
                    agents |-> c.agents, wallets |-> c.wallets,
                    calls |-> factory.calls + 1]
    /\ UNCHANGED <<engineVars, submitVars, loopVars, parked, selection, store,
                   memory, evolved, strategy, callVars>>

NextBalance == CreateAgentHandled

\* ---- actEvolveStrategy on its own ----

MaxStored == 4
MaxCounted == 7

\* The weights the engine holds when the handler is called: those of a new
\* engine, and those after successes have brought the three weights of the
\* handler to the ceiling.
StrategyWeights ==
    {InitialWeights,
     [InitialWeights EXCEPT !["WAIT_AND_OBSERVE"] = D_0_9,
                            !["CREATE_AGENT"] = D_0_9,
                            !["DELEGATE_TASK"] = D_0_9]}

\* The stored agents: up to MaxStored of them.
StoredAgents(n) == [i \in 1..n |-> NewAgent]

\* The aggregate after successful and failed cycles: updateMetrics counts
\* every cycle in totalDecisions and in one of the two action counters.
CountedMetrics(successful, failed) ==
    [InitialMetrics EXCEPT !.successfulActions = successful,
                           !.failedActions = failed,
                           !.totalDecisions = successful + failed]

\* The calls of the handler that throw in SpecStrategy.
StrategyFaults == SUBSET {"getMetricsFirst", "getAllAgents", "submitTransaction"}

NoStrategyCall == [made |-> FALSE]

\* One call of actEvolveStrategy, on any such engine and store.
EvolveStrategyCalled ==
    /\ ~strategy.made
    /\ \E w \in StrategyWeights, n \in 0..MaxStored,
          successful \in 0..MaxCounted, faults \in StrategyFaults :
         \E failed \in 0..(MaxCounted - successful) :
           \E h \in {actEvolveStrategy(faults, StoredAgents(n),
                                        CountedMetrics(successful, failed), w,
                                        <<"sig", 0>>)} :
             strategy' = [made |-> TRUE, weights |-> w, stored |-> n,
                          metrics |-> CountedMetrics(successful, failed),
                          error |-> h.error, faults |-> faults,
                          after |-> h.weights]
    /\ UNCHANGED <<engineVars, submitVars, loopVars, parked, selection, store,
                   memory, factory, evolved, callVars>>

NextStrategy == EvolveStrategyCalled

(***************************************************************************)
(* AgentCoordinator (src/src/core/agent-coordinator.ts): one call of       *)
(* coordinateAgents on a snapshot of the active agents. An agent of the    *)
(* snapshot carries what the call reads: id, role, the two task counters   *)
(* and sinceActive, the value of Date.now() - lastActive at its report.    *)
(***************************************************************************)
MaxCoordinated == 3

GENESIS_ID == "genesis_root"

CoordinatedIds == <<"agent_1", "agent_2", "agent_3", "agent_4">>

CoordinatedRoles == {"EXPLORER", "GUARDIAN"}

\* <<successCount, failureCount>>: no task yet, 0.25, 0.3, 0.6.
TaskCounts == {<<0, 0>>, <<1, 3>>, <<3, 7>>, <<3, 2>>}

\* Milliseconds since the agent was last active, around both thresholds.
IdleTimes == {0, 120001, 300000, 300001}

D_0_6 == <<161061273, 322122544>>   \* 0.6  = 0x1.3333333333333p-1

\* The integer n < 16 as the double n / 8 (a ratio keeps its value).
Eighths(n) == <<n * 33554432, 0>>

\* successCount / totalTasks, or 1.0 without tasks.
successRate(successCount, failureCount) ==
    IF successCount + failureCount > 0
    THEN IF successCount = 0 THEN D_0
         ELSE FDiv(Eighths(successCount), Eighths(successCount + failureCount))
    ELSE D_1_0

healthStatus(rate, sinceActive) ==
    IF FLess(rate, D_0_3) \/ sinceActive > 300000 THEN "CRITICAL"
    ELSE IF FLess(rate, D_0_6) \/ sinceActive > 120000 THEN "DEGRADED"
    ELSE "HEALTHY"

generateAgentReport(agent) ==
    The({[agentId |-> agent.id, role |-> agent.role, successRate |-> rate,
          healthStatus |-> healthStatus(rate, agent.sinceActive)] :
            rate \in {successRate(agent.successCount, agent.failureCount)}})

\* Array.prototype.find: the index of the first element that passes, 0 if none.
FindIndex(seq, Test(_)) ==
    IF \E i \in DOMAIN seq : Test(seq[i])
    THEN CHOOSE i \in DOMAIN seq :
           Test(seq[i]) /\ \A j \in 1..(i - 1) : ~Test(seq[j])
    ELSE 0

\* reports.find((r) => r.agentId === a.id)?.healthStatus
ReportedHealth(reports, id) ==
    LET i == FindIndex(reports, LAMBDA r : r.agentId = id)
    IN  IF i = 0 THEN "undefined" ELSE reports[i].healthStatus

IsBackup_AnyHealth(a, agent, reports) ==
    a.role = agent.role /\ a.id # agent.id

IsBackup(a, agent, reports) ==
    /\ a.role = agent.role
    /\ a.id # agent.id
    /\ ReportedHealth(reports, a.id) = "HEALTHY"

NoMessage == [from |-> "none", to |-> "none", type |-> "none",
              action |-> "none", fromAgent |-> "none"]

createMessage(to, type, action, fromAgent) ==
    [from |-> GENESIS_ID, to |-> to, type |-> type, action |-> action,
     fromAgent |-> fromAgent]

\* The body of the loop over criticalAgents, for the report `critical`.
TakeOverFor(ag, reports, critical) ==
    LET i == FindIndex(ag, LAMBDA a : a.id = critical.agentId)
        b == IF i = 0 THEN 0
             ELSE FindIndex(ag, LAMBDA a : IsBackup(a, ag[i], reports))
    IN  IF b = 0 THEN NoMessage
        ELSE createMessage(ag[b].id, "COORDINATION", "TAKE_OVER", ag[i].id)

\* What coordinateAgents pushes to messageLog, in order, and its reports.
coordinateAgents(activeAgents) ==
    LET ag == SelectSeq(activeAgents, LAMBDA a : a.id # GENESIS_ID)
    IN  The({[reports |-> reports,
              messages |->
                [i \in DOMAIN ag |->
                   createMessage(ag[i].id, "STATUS_REQUEST", "none", "none")]
                \o SelectSeq(
                     [i \in DOMAIN reports |->
                        IF reports[i].healthStatus = "CRITICAL"
                        THEN TakeOverFor(ag, reports, reports[i])
                        ELSE NoMessage],
                     LAMBDA m : m # NoMessage)] :
            reports \in {[i \in DOMAIN ag |-> generateAgentReport(ag[i])]}})

RootAgent == [id |-> GENESIS_ID, role |-> "COORDINATOR", successCount |-> 0,
              failureCount |-> 0, sinceActive |-> 0]

NoCoordination == [made |-> FALSE, activeAgents |-> <<>>, reports |-> <<>>,
                   messages |-> <<>>]

\* One call of coordinateAgents, on any snapshot of up to MaxCoordinated
\* children, with or without the root agent in it.
CoordinateAgentsCalled ==
    /\ ~coordination.made
    /\ \E n \in 0..MaxCoordinated, withRoot \in BOOLEAN :
         \E roles \in [1..n -> CoordinatedRoles], counts \in [1..n -> TaskCounts],
            idle \in [1..n -> IdleTimes] :
           \E snapshot \in {(IF withRoot THEN <<RootAgent>> ELSE <<>>) \o
                              [i \in 1..n |->
                                 [id |-> CoordinatedIds[i], role |-> roles[i],
                                  successCount |-> counts[i][1],
                                  failureCount |-> counts[i][2],
                                  sinceActive |-> idle[i]]]} :
             \E c \in {coordinateAgents(snapshot)} :
               coordination' = [made |-> TRUE, activeAgents |-> snapshot,
                                reports |-> c.reports, messages |-> c.messages]
    /\ UNCHANGED <<engineVars, submitVars, loopVars, parked, selection, store,
                   memory, factory, evolved, strategy, delegation>>

NextCoordinate == CoordinateAgentsCalled

(***************************************************************************)
(* actDelegateTask on its own (genesis.ts:438-466), on stored agents that  *)
(* carry what its selection reads: id, status, currentTask, lastActive.    *)
(***************************************************************************)
MaxDelegated == 3

DelegatedStatuses == {"ACTIVE", "CREATED", "PAUSED"}

LastActiveTimes == {1, 2, 3}

\* The calls of the handler that throw in a call: none, the read of the
\* store, the write that marks the agent busy, the role task.
DelegateFaults == {{}, {"getAllAgents"}, {"saveAgent"}, {"roleTask"}}

\* The filter of actDelegateTask.
IsIdleChild(a) ==
    /\ a.id # GENESIS_ID
    /\ a.status \in {"ACTIVE", "CREATED"}
    /\ ~a.currentTask

\* The place of element i after a stable sort by ascending lastActive.
Rank(seq, i) ==
    1 + Cardinality({j \in DOMAIN seq :
                       \/ seq[j].lastActive < seq[i].lastActive
                       \/ seq[j].lastActive = seq[i].lastActive /\ j < i})

sortByLastActive_Unsorted(seq) == seq

\* childAgents.sort((a, b) => a.metadata.lastActive - b.metadata.lastActive)
sortByLastActive(seq) ==
    [k \in DOMAIN seq |-> seq[CHOOSE i \in DOMAIN seq : Rank(seq, i) = k]]

\* The id of selectedAgent, "none" when childAgents is empty.
selectedAgent(stored) ==
    LET childAgents == SelectSeq(stored, IsIdleChild)
    IN  IF Len(childAgents) = 0 THEN "none"
        ELSE sortByLastActive(childAgents)[1].id

\* The stored agents other than the root: the agents the loop keeps.
Children(stored) == SelectSeq(stored, LAMBDA a : a.id # GENESIS_ID)

IdleRoot == [id |-> GENESIS_ID, status |-> "ACTIVE", currentTask |-> FALSE,
             lastActive |-> 0, creationTx |-> NoSig, successCount |-> 0,
             failureCount |-> 0]

NoDelegation == [made |-> FALSE, stored |-> <<>>, faults |-> {},
                 selected |-> "none", error |-> "none",
                 transactionSignature |-> NoSig, submission |-> NoSubmission,
                 after |-> <<>>]

\* One call of actDelegateTask, on any store of up to MaxDelegated children,
\* with or without the root agent in it.
DelegateTaskCalled ==
    /\ ~delegation.made
    /\ \E n \in 0..MaxDelegated, withRoot \in BOOLEAN, faults \in DelegateFaults :
         \E statuses \in [1..n -> DelegatedStatuses], busy \in [1..n -> BOOLEAN],
            times \in [1..n -> LastActiveTimes] :
           \E stored \in {(IF withRoot THEN <<IdleRoot>> ELSE <<>>) \o
                            [i \in 1..n |->
                               [id |-> CoordinatedIds[i], status |-> statuses[i],
                                currentTask |-> busy[i], lastActive |-> times[i],
                                creationTx |-> NoSig, successCount |-> 0,
                                failureCount |-> 0]]} :
             \E id \in {selectedAgent(stored)} :
               \E h \in {actDelegateTask(
                           faults, Children(stored), InitialMetrics,
                           InitialWeights, <<"sig", 0>>,
                           FindIndex(Children(stored), LAMBDA a : a.id = id))} :
                 delegation' =
                   [made |-> TRUE, stored |-> stored, faults |-> faults,
                    selected |-> IF "getAllAgents" \in faults THEN "none" ELSE id,
                    error |-> h.error,
                    transactionSignature |-> h.transactionSignature,
                    submission |-> h.submission, after |-> h.agents]
    /\ UNCHANGED <<engineVars, submitVars, loopVars, parked, selection, store,
                   memory, factory, evolved, strategy, coordination>>

NextDelegate == DelegateTaskCalled

vars == <<engineVars, submitVars, loopVars, otherVars>>

\* The process ends, at any point of the loop, and the system is started
\* again on the same store: new GenesisAgent(memory, ...) constructs a new
\* DecisionEngine, whose constructor sets the six base weights and reads
\* nothing, and has running = false; the agents, the decision log and
\* the metrics are those of the store.
SystemRestarts ==
    /\ pc # "idle"
    /\ decisionWeights' = InitialWeights
    /\ running' = FALSE
    /\ pc' = "idle"
    /\ decision' = NoDecision
    /\ result' = NoActionResult
    /\ evolved' = NoEvent
    /\ UNCHANGED <<cycle, decisionLog, agents, metrics, acted, appended>>
    /\ UNCHANGED <<engineRest, submitVars, parked, selection, store, memory,
                   factory, strategy, callVars>>

\* The state after construction of the engine and the submitter.
Init ==
    /\ decisionWeights = InitialWeights
    /\ updatedTypes = {}
    /\ streak = [type |-> "none", success |-> TRUE, len |-> 0]
    /\ subPc = "idle"
    /\ attempt = 0
    /\ recentBlockhash = 0
    /\ fetchCount = 0
    /\ events = <<>>
    /\ subResult = NoResult
    /\ subCalls = 0
    /\ running = FALSE
    /\ pc = "idle"
    /\ cycle = 0
    /\ decision = NoDecision
    /\ result = NoActionResult
    /\ decisionLog = <<>>
    /\ agents = <<>>
    /\ metrics = InitialMetrics
    /\ acted = [error |-> "none", submission |-> NoSubmission]
    /\ appended = 0
    /\ parked = NotStarted
    /\ selection = NoSelection
    /\ store = EmptyCollection
    /\ memory = EmptyMemory
    /\ factory = EmptyFactory
    /\ evolved = NoEvent
    /\ strategy = NoStrategyCall
    /\ coordination = NoCoordination
    /\ delegation = NoDelegation

SpecEngine == Init /\ [][NextEngine]_vars

SpecStreak == Init /\ [][NextStreak]_vars

SpecSubmit == Init /\ [][NextSubmit]_vars

Spec == Init /\ [][Next]_vars

\* The loop, with the process ending at any point and the system started
\* again on the same store.
NextReboot ==
    \/ StartAutonomyLoop
    \/ StopAutonomyLoop
    \/ BeginCycle
    \/ LoopExit
    \/ Observe
    \/ Reason
    \/ Decide
    \/ Act
    \/ Log
    \/ Evolve
    \/ UpdateMetrics
    \/ Wait
    \/ Cooldown
    \/ SystemRestarts

SpecReboot == Init /\ [][NextReboot]_vars

\* The loop with any sequence of startAutonomyLoop and stopAutonomyLoop calls.
NextRestart ==
    \/ StartAutonomyLoop
    \/ StartAutonomyLoopAgain
    \/ ResumeOther
    \/ StopAutonomyLoop
    \/ BeginCycle
    \/ LoopExit
    \/ Observe
    \/ Reason
    \/ Decide
    \/ Act
    \/ Log
    \/ Evolve
    \/ UpdateMetrics
    \/ Wait
    \/ Cooldown

SpecRestart == Init /\ [][NextRestart]_vars

\* selectDecision calls, alone and inside reason and decide.
SpecSelect == Init /\ [][NextSelect]_vars

\* Writes to one collection file.
SpecStore == Init /\ [][NextStore]_vars

\* Writes, damage to the files, and loads by fresh store instances.
NextLoad ==
    \/ WriteBegins
    \/ TempWriteStarts
    \/ TempWriteEnds
    \/ BackupCopyStarts
    \/ BackupCopyEnds
    \/ Replace
    \/ WriteFails
    \/ ProcessStops
    \/ LiveCorrupted
    \/ BackupCorrupted
    \/ Load

SpecLoad == Init /\ [][NextLoad]_vars

\* Saves by one MemorySystem instance and loads by a fresh one.
SpecMemory == Init /\ [][NextMemory]_vars

\* Calls of the AgentFactory.
SpecFactory == Init /\ [][NextFactory]_vars

\* Calls of actEvolveStrategy.
SpecStrategy == Init /\ [][NextStrategy]_vars

SpecReach == Init /\ [][NextReach]_vars

SpecBalance == Init /\ [][NextBalance]_vars

SpecCoordinate == Init /\ [][NextCoordinate]_vars

SpecDelegate == Init /\ [][NextDelegate]_vars

\* The steps of the loop itself: awaited continuations and timers, which the
\* event loop runs.
LoopStep ==
    \/ BeginCycle \/ LoopExit \/ Observe \/ Reason \/ Decide \/ Act \/ Log
    \/ Evolve \/ UpdateMetrics \/ Wait \/ Cooldown

SpecLive == Init /\ [][Next]_vars /\ WF_vars(LoopStep)

\* How far below 0 the evolution score is followed (thousandths).
ScoreOvershoot == 10

\* The decision types and ids of the results handed to evolve in SpecScore.
EvolveInputTypes == {"WAIT_AND_OBSERVE"}
EvolveInputIds == {1, 2}

\* evolve(result) called with the result of any decision, as the Evolve
\* phase of cycle after cycle does: updateWeights, (with probability 0.5)
\* logEvolution, then getMetrics and updateMetrics({evolutionScore:
\* newScore}); a store call may throw.
EvolveCalled ==
    /\ metrics.evolutionScore > -ScoreOvershoot
    /\ \E t \in EvolveInputTypes, id \in EvolveInputIds, success \in BOOLEAN,
          threw \in BOOLEAN, logged \in BOOLEAN :
         /\ decision' = [id |-> id, type |-> t]
         /\ result' = IF success THEN SuccessResult(decision', NoSig)
                      ELSE FailedResult(decision', "Action failed")
         /\ decisionWeights' = updateWeights(decisionWeights, t, success)
         /\ evolved' = EvolveLogs(result', decisionWeights, logged)
         /\ metrics' = IF threw THEN metrics
                       ELSE [metrics EXCEPT
                               !.evolutionScore = NewScore(@, success)]
    /\ UNCHANGED <<running, pc, cycle, decisionLog, agents, acted, appended>>
    /\ UNCHANGED <<engineRest, submitVars, parked, selection, store, memory,
                   factory, strategy, callVars>>

NextScore == EvolveCalled

SpecScore == Init /\ [][NextScore]_vars

\* The send attempts of the current call, in order.
Sends == SelectSeq(events, LAMBDA e : e.kind = "send")

SubmitOver == subPc \in {"returned", "threw", "idle"} /\ Len(Sends) > 0

\* C6: a submitTransaction call with the default maxRetries makes at most 3
\* send attempts; when all 3 fail, the call has thrown the error of the third
\* attempt and nothing follows the third send.
C6_ThreeSendsThenThirdError ==
    /\ Len(Sends) <= 3
    /\ (Len(Sends) = 3 /\ \A i \in 1..3 : ~Sends[i].ok) =>
          /\ subPc \in {"threw", "idle"}
          /\ subResult = SendError(3)
          /\ events[Len(events)].kind = "send"

\* C6 witness: the call has thrown after three failed sends.
C6_Witness ==
    /\ subPc = "threw"
    /\ Len(Sends) = 3
    /\ \A i \in 1..3 : ~Sends[i].ok

\* C7 (the claim as stated): a failed send on attempt n < 3 is followed by
\* the backoff sleep, a blockhash refresh and attempt n + 1, so a call that
\* is over ended with a successful send or with the third send; and a call
\* that returned returned the signature of its first successful send, which
\* is its last send.
C7_FailedSendIsRetried ==
    /\ \A i \in 1..Len(events) :
          (events[i].kind = "send" /\ ~events[i].ok /\ events[i].attempt < 3) =>
             /\ i + 1 <= Len(events) => events[i + 1].kind = "sleep"
             /\ i + 2 <= Len(events) => events[i + 2].kind = "fetch"
             /\ i + 3 <= Len(events) =>
                   /\ events[i + 3].kind = "send"
                   /\ events[i + 3].attempt = events[i].attempt + 1
             /\ SubmitOver => i + 3 <= Len(events)
    /\ subPc = "returned" =>
          /\ Sends[Len(Sends)].ok
          /\ \A i \in 1..(Len(Sends) - 1) : ~Sends[i].ok
          /\ subResult = Signature(subCalls, Sends[Len(Sends)].attempt)
          /\ events[Len(events)] = Sends[Len(Sends)]

\* C8: every send after the first carries the blockhash of a
\* getLatestBlockhash response that came after the previous send failed and
\* after the backoff sleep, and no earlier send of the call carried it.
C8_RetryUsesFreshBlockhash ==
    \A i \in 1..Len(events) :
        (events[i].kind = "send" /\ events[i].attempt > 1) =>
           /\ i >= 4
           /\ events[i - 1].kind = "fetch"
           /\ events[i - 1].blockhash = events[i].blockhash
           /\ events[i - 2].kind = "sleep"
           /\ events[i - 3].kind = "send"
           /\ ~events[i - 3].ok
           /\ events[i - 3].attempt = events[i].attempt - 1
           /\ \A j \in 1..(i - 1) :
                 events[j].kind = "send" => events[j].blockhash # events[i].blockhash

\* C8 witness: a third send was made, after two failed ones.
C8_Witness ==
    /\ Len(Sends) = 3
    /\ Sends[3].blockhash = recentBlockhash

\* C4: after construction and any sequence of updateWeights calls, every
\* component of the base weight vector lies in [0.05, 0.9].
C4_WeightsWithinBounds ==
    \A t \in DecisionType :
        /\ ~FLess(decisionWeights[t], D_0_05)
        /\ ~FLess(D_0_9, decisionWeights[t])

\* C4 witness: updateWeights has driven one weight to the ceiling and
\* another to the floor.
C4_Witness ==
    \E t \in updatedTypes, u \in updatedTypes :
        /\ decisionWeights[t] = D_0_9
        /\ decisionWeights[u] = D_0_05

\* C5: once 17 calls in a row were successes for one type its weight is
\* exactly 0.9, and it stays 0.9 with every further success; once 17 calls in
\* a row were failures it is exactly 0.05, and stays 0.05 with every further
\* failure.
C5_SaturatesAndFloors ==
    streak.len >= 17 =>
        decisionWeights[streak.type] = (IF streak.success THEN D_0_9 ELSE D_0_05)

\* C5 witness: a weight sits at 0.9 after more than 17 successes in a row.
C5_Witness ==
    /\ streak.len = MaxStreak
    /\ streak.success
    /\ decisionWeights[streak.type] = D_0_9

(***************************************************************************)
(* Claims about the autonomy loop (Spec, SpecLive).                        *)
(***************************************************************************)
\* The statements of the loop body after act has returned.
AfterAct == {"log", "evolve", "metrics", "wait"}

\* The statements of the loop body after log has returned.
AfterLog == {"evolve", "metrics", "wait"}

LastLogged == decisionLog[Len(decisionLog)]

\* C1: a cycle that has finished its Log phase has appended exactly one
\* entry to the decision log, that entry pairs the cycle's decision with an
\* ActionResult whose embedded decision has the same id, and no cycle appends
\* more than one entry (so the log never holds more entries than cycles begun).
C1_OneLinkedEntryPerCycle ==
    /\ appended <= 1
    /\ Len(decisionLog) <= cycle
    /\ \A i \in 1..Len(decisionLog) :
          decisionLog[i].result.decision.id = decisionLog[i].decision.id
    /\ pc \in AfterLog =>
          /\ appended = 1
          /\ Len(decisionLog) >= 1
          /\ LastLogged.decision = decision
          /\ LastLogged.result = result

\* C1 witness: the second cycle has finished its Log phase after the first
\* one did, and the log holds their two entries.
C1_Witness ==
    /\ pc = "wait"
    /\ cycle = 2
    /\ Len(decisionLog) = 2
    /\ decisionLog[1].decision.id # decisionLog[2].decision.id

\* C2: act never throws - once decide has produced the decision, the cycle
\* is never in the catch block without an ActionResult - and the result it
\* returns carries the decision acted on; when the handler threw, the result
\* has success = false and an error text, and when it returned, success = true.
C2_ActAlwaysReturnsResult ==
    /\ (pc = "cooldown" /\ decision.id # 0) => result # NoActionResult
    /\ pc \in AfterAct =>
          /\ result # NoActionResult
          /\ result.decision = decision
          /\ acted.error # "none" =>
                ~result.success /\ result.error = acted.error
          /\ acted.error = "none" => result.success

\* C2 witness: a handler threw out of a collaborator call (here the factory)
\* and act has returned a failed result.
C2_Witness ==
    /\ pc = "log"
    /\ acted.error = "createAgent"
    /\ ~result.success
    /\ result.decision = decision

Phases == {"observe", "reason", "decide", "act", "log", "evolve", "metrics"}

\* C3: an exception of any phase is caught inside the loop: from a phase the
\* loop goes to the next statement or to the catch block, from the catch
\* block (after the cooldown) back to the loop test, from the loop test with
\* the run flag set into a new cycle, and it leaves the loop only from the
\* loop test with the run flag cleared; and, the loop's continuations being
\* run, a caught exception is followed by the first phase of another cycle
\* unless the run flag is cleared meanwhile.
C3_LoopSurvivesPhaseExceptions ==
    /\ [][/\ (pc \in Phases /\ pc' # PhaseAfter(pc)) => pc' \in {pc, "cooldown"}
          /\ (pc = "cooldown" /\ pc' # pc) => pc' = "check"
          /\ (pc = "check" /\ running /\ pc' # pc) =>
                (pc' = "observe" /\ cycle' = cycle + 1)
          /\ (pc' = "exited" /\ pc # "exited") => (pc = "check" /\ ~running)
         ]_vars
    /\ (pc = "cooldown" /\ cycle < MaxCycles) ~> (pc = "observe" \/ ~running)

\* C3 witness: the first cycle logged nothing, so it ended in the catch
\* block, and the second cycle has begun with the run flag still set.
C3_Witness ==
    /\ cycle = 2
    /\ pc = "observe"
    /\ running
    /\ decisionLog = <<>>

\* C9 as stated: whenever the submission of an Act phase exhausted its
\* retries, the error reached act and the ActionResult is a failed one.
C9_SubmissionErrorFailsTheAction ==
    (pc \in AfterAct /\ acted.submission.outcome = "exhausted") =>
        (acted.error = "submitTransaction" /\ ~result.success)

\* C9, amended: when the submission of an Act phase exhausted its retries,
\* act still returns an ActionResult for the decision, without a
\* transactionSignature. In the create-entity handler the submission error
\* reaches act and the result is a failed one. In the coordinate,
\* evolve-strategy and analyze-performance handlers the error is caught in
\* the handler's on-chain logging and the result is a successful one. In the
\* delegate-task handler it is caught too, and the result is successful
\* unless saving the agent then fails in executeTask's try and catch blocks.
C9_SubmissionErrorByHandler ==
    (pc \in AfterAct /\ acted.submission.outcome = "exhausted") =>
        /\ result.decision = decision
        /\ result.transactionSignature = NoSig
        /\ decision.type # "WAIT_AND_OBSERVE"
        /\ decision.type = "CREATE_AGENT" =>
              /\ acted.error = "submitTransaction"
              /\ ~result.success
              /\ result.error = "submitTransaction"
        /\ decision.type \in {"COORDINATE_AGENTS", "EVOLVE_STRATEGY",
                              "ANALYZE_PERFORMANCE"} =>
              (acted.error = "none" /\ result.success)
        /\ decision.type = "DELEGATE_TASK" =>
              /\ acted.error \in {"none", "saveAgentFailed"}
              /\ result.success = (acted.error = "none")

\* C9 witness: a coordinate cycle whose submission exhausted its retries
\* and whose ActionResult is a successful one.
C9_Witness ==
    /\ pc = "log"
    /\ decision.type = "COORDINATE_AGENTS"
    /\ acted.submission.outcome = "exhausted"
    /\ result.success

\* C10 as stated: whenever the submission of an Act phase returned a
\* signature, the ActionResult persisted by the Log phase of that cycle
\* carries it in transactionSignature.
C10_SignatureNeverDropped ==
    (pc \in AfterLog /\ acted.submission.outcome = "returned") =>
        LastLogged.result.transactionSignature = acted.submission.signature

\* C11 as stated: totalTransactions counts the submissions that returned a
\* signature: a step in which a submission returns adds exactly one to it,
\* and no other step changes it.
C11_CountsReturnedSubmissions ==
    [][metrics'.totalTransactions = metrics.totalTransactions +
         (IF pc = "act" /\ pc' = "log" /\ acted'.submission.outcome = "returned"
          THEN 1 ELSE 0)]_vars

\* C12 as stated: after any sequence of Evolve phases the persisted
\* evolutionScore is within [0, 1] (0 .. 1000 thousandths).
C12_ScoreWithinUnitInterval ==
    /\ metrics.evolutionScore >= 0
    /\ metrics.evolutionScore <= 1000

\* C13: a stopAutonomyLoop call while a cycle is in flight changes the run
\* flag only, and the cycle goes on as if the flag were set: every phase is
\* followed by the next statement (or by the catch block when it throws),
\* and, the loop's continuations being run, the cycle reaches the end of the
\* loop body (past the closing metrics update, or the catch block).
\* The cleared flag acts at the loop test only, where the loop is left.
C13_StopDoesNotInterruptCycle ==
    /\ [][/\ (running /\ ~running') =>
                UNCHANGED <<pc, cycle, decision, result, decisionLog, agents,
                            metrics, decisionWeights, acted, appended>>
          /\ (~running /\ pc \in Phases /\ pc' # pc) =>
                pc' \in {PhaseAfter(pc), "cooldown"}
          /\ (~running /\ pc \in {"wait", "cooldown"} /\ pc' # pc) =>
                pc' = "check"
          /\ (~running /\ pc = "check" /\ pc' # pc) => pc' = "exited"
         ]_vars
    /\ (pc \in Phases /\ ~running) ~> (pc \in {"wait", "cooldown"})

\* C13 witness: the run flag was cleared during the first cycle (a cycle
\* begins only with the flag set) and the cycle has run to its last
\* statement, with its entry logged.
C13_Witness ==
    /\ ~running
    /\ cycle = 1
    /\ pc = "wait"
    /\ appended = 1

\* C14: after stopAutonomyLoop (and no further startAutonomyLoop), the
\* loop's continuations being run, the loop eventually exits, and no cycle
\* begins while the run flag is cleared: the last observe phase is the one
\* of the cycle in flight at the stop.
C14_StopLeadsToExit ==
    /\ [][~running => (cycle' = cycle /\ (pc' = "observe" => pc = "observe"))]_vars
    /\ (~running /\ pc # "idle") ~> (pc = "exited")

\* C14 witness: the loop has exited after a stop, having run a cycle.
C14_Witness ==
    /\ pc = "exited"
    /\ ~running
    /\ cycle >= 1

\* C15 as stated: at every moment at most one cycle of the controller is in
\* flight, for every sequence of startAutonomyLoop and stopAutonomyLoop
\* calls.
C15_SingleCycleInFlight ==
    ~(pc \in InCycle /\ parked.pc \in InCycle)

\* The option of the input list that carries the type of what was returned.
SelectedInput ==
    CHOOSE i \in DOMAIN selection.options :
        selection.options[i].type = selection.returned.type

\* C16: for every non-empty option list, every jitter and every draw,
\* selectDecision returns an option whose type, reasoning and parameters are
\* those of a member of the input list, and when no cumulative sum reaches
\* the draw they are those of the last option.
C16_SelectsMemberOfInput ==
    selection.made =>
        /\ \E i \in DOMAIN selection.options :
              /\ selection.returned.type = selection.options[i].type
              /\ selection.returned.reasoning = selection.options[i].reasoning
              /\ selection.returned.parameters = selection.options[i].parameters
        /\ selection.fellThrough =>
              LET last == selection.options[Len(selection.options)]
              IN  /\ selection.returned.type = last.type
                  /\ selection.returned.reasoning = last.reasoning
                  /\ selection.returned.parameters = last.parameters

\* A call in which rounding left the cumulative sum short of the draw and
\* the last of several options was returned.
C16_Witness ==
    /\ selection.made
    /\ selection.fellThrough
    /\ Len(selection.options) > 1
    /\ selection.returned.type = selection.options[Len(selection.options)].type

\* C17 as stated: the Decision produced by reason followed by decide has
\* confidence equal to the weight generateOptions computed for the selected
\* option (pre-jitter, post-clamp).
C17_ConfidenceIsOptionWeight ==
    (selection.made /\ selection.decision # NotDecided) =>
        selection.decision.confidence = selection.options[SelectedInput].weight

\* The pre-jitter weight generateOptions gives the option of a type.
OptionWeight(state, type) ==
    The({options[CHOOSE i \in DOMAIN options : options[i].type = type].weight :
            options \in {generateOptions(decisionWeights, state)}})

\* C18 as stated: with 0 entities generateOptions gives CREATE_AGENT a
\* strictly higher pre-jitter weight than COORDINATE_AGENTS, in every engine
\* state reachable from construction by updateWeights calls.
C18_CreateAboveCoordinateWhenEmpty ==
    FLess(OptionWeight(EmptyStore, "COORDINATE_AGENTS"),
          OptionWeight(EmptyStore, "CREATE_AGENT"))

\* C19 as stated: with 6 active entities generateOptions gives
\* COORDINATE_AGENTS a strictly higher pre-jitter weight than CREATE_AGENT,
\* in every engine state reachable from construction by updateWeights calls.
C19_CoordinateAboveCreateWhenSix ==
    FLess(OptionWeight(SixActive, "CREATE_AGENT"),
          OptionWeight(SixActive, "COORDINATE_AGENTS"))

\* C20: at every step of the write path (temporary write, backup copy,
\* replacement) and after a failure or a stop at any of them, a reader of
\* the live file sees the complete previous content or the complete new
\* content; after a failed or stopped write it is the previous content.
C20_LiveFileNeverTorn ==
    /\ store.live.complete
    /\ store.live \in {store.previous, Content(store.pending, TRUE)}
    /\ store.outcome \in {"PersistenceError", "stopped"} =>
          store.live = store.previous
    /\ store.outcome = "written" => store.live = Content(store.pending, TRUE)

\* A second write failed while the temporary file was half written: the
\* live file still holds what the first write put there.
C20_Witness ==
    /\ store.outcome = "PersistenceError"
    /\ store.previous = Content(1, TRUE)
    /\ store.temp = Content(2, FALSE)
    /\ store.live = Content(1, TRUE)

C23_TaskCountNeverDecreases ==
    [][\A i \in DOMAIN agents :
          /\ i \in DOMAIN agents'
          /\ agents'[i].successCount + agents'[i].failureCount
               >= agents[i].successCount + agents[i].failureCount]_vars

\* A delegated task has been counted for an agent, as a failure.
C23_Witness ==
    \E i \in DOMAIN agents :
        /\ agents[i].failureCount > 0
        /\ decision.type = "DELEGATE_TASK"

\* C24: selectRole returns a role whose count among the snapshot's active
\* agents is minimal over the five roles (a role no agent has counts 0),
\* whatever the tie-break draw.
C24_SelectsLeastRepresentedRole ==
    factory.selected.made =>
        /\ \E k \in DOMAIN AgentRoles : factory.selected.role = AgentRoles[k]
        /\ \A k \in DOMAIN AgentRoles :
             RoleCount(factory.selected.active, factory.selected.role)
               <= RoleCount(factory.selected.active, AgentRoles[k])

\* Two explorers and one builder in the snapshot, the largest draw:
\* the last of the three roles without an agent is selected.
C24_Witness ==
    /\ factory.selected.made
    /\ factory.selected.active = <<"EXPLORER", "EXPLORER", "BUILDER">>
    /\ factory.selected.random = D_Below1
    /\ factory.selected.role = "GUARDIAN"

\* C26: after any sequence of createAgent calls, returned or thrown, no two
\* stored agents have the same id and no two have both the same role and
\* the same mission text.
C26_AgentsAreUnique ==
    \A i, j \in DOMAIN factory.agents :
        i # j =>
          /\ factory.agents[i].id # factory.agents[j].id
          /\ ~(/\ factory.agents[i].role = factory.agents[j].role
               /\ factory.agents[i].mission = factory.agents[j].mission)

\* Two agents are stored and a further createAgent, with a fresh id and
\* the role and mission of one of them, has thrown.
C26_Witness ==
    /\ Len(factory.agents) = 2
    /\ factory.created.made
    /\ factory.created.threw = "identical role-mission"
    /\ ~IdExists(factory.agents, factory.created.id)

\* C25: when the create-entity action ends with success = false, the store
\* holds no agent created by that action.
C25_FailedCreationLeavesNoAgent ==
    [][(/\ pc = "act"
        /\ decision.type = "CREATE_AGENT"
        /\ pc' # "act"
        /\ ~result'.success) => agents' = agents]_vars

\* C27: when the system restarts on the same store, the decision weight
\* vector and the evolution score that the first cycle after the restart
\* sees are those at the end of the last cycle before it.
C27_RestartKeepsEvolutionState ==
    [][SystemRestarts =>
          /\ decisionWeights' = decisionWeights
          /\ metrics'.evolutionScore = metrics.evolutionScore]_vars

\* C28: whenever the delegate-task handler has finished, with the task
\* completed or failed and the store writes failing or not, the store holds
\* the selected agent without a currentTask: no agent is marked busy once
\* Act has ended.
C28_NoAgentStaysBusy ==
    pc # "act" => \A i \in DOMAIN agents : ~agents[i].currentTask

\* |a - b| for two doubles, exactly.
Distance(a, b) == IF FLess(a, b) THEN LSub(b, a) ELSE LSub(a, b)

\* Equal up to the rounding of double arithmetic (2^-45).
Near(a, b) == FLess(Distance(a, b), <<0, 4096>>)

\* One reinforcement step from the weight before to the weight after: up by
\* 0.05 on success, down by 0.05 on failure, or, with the weight after at
\* the clamp bound, no change.
OneStep(before, after, success) ==
    IF success
    THEN /\ ~FLess(after, before)
         /\ \/ Near(Distance(after, before), D_0_05)
            \/ (after = D_0_9 /\ Near(after, before))
    ELSE /\ ~FLess(before, after)
         /\ \/ Near(Distance(after, before), D_0_05)
            \/ (after = D_0_05 /\ Near(after, before))

\* C29: every EvolutionEvent that evolve appends has triggeredBy equal to
\* the id of the cycle's decision; its before and after snapshots are equal
\* in every entry but that of the decision's type, which differs by +0.05 on
\* success, by -0.05 on failure, or by 0 at a clamp bound.
C29_EventRecordsOneStep ==
    evolved.made =>
        /\ evolved.triggeredBy = decision.id
        /\ evolved.type = decision.type
        /\ \A t \in DecisionType \ {evolved.type} :
             evolved.after[t] = evolved.before[t]
        /\ OneStep(evolved.before[evolved.type], evolved.after[evolved.type],
                   evolved.success)

\* An event of a failed decision whose weight was at the floor already: the
\* snapshots are equal.
C29_Witness ==
    /\ evolved.made
    /\ ~evolved.success
    /\ evolved.triggeredBy = 2
    /\ evolved.before[evolved.type] = D_0_05
    /\ evolved.after = evolved.before

\* The weight after one upward reinforcement step.
OneStepUp(w) == FMin(D_0_9, FAdd(w, D_0_05))

\* The aggregate success rate is below 0.5.
RateBelowHalf(m) ==
    /\ m.successfulActions + m.failedActions > 0
    /\ 2 * m.successfulActions < m.successfulActions + m.failedActions

\* C30: actEvolveStrategy applies one upward reinforcement step to
\* WAIT_AND_OBSERVE exactly when the aggregate success rate is below 0.5, to
\* CREATE_AGENT exactly when fewer than 3 agents are stored, and to
\* DELEGATE_TASK exactly when at least 3 agents are stored and
\* totalDecisions > 5 (for a call whose reads of the store return); in no
\* call, returning or throwing, does it raise both CREATE_AGENT and
\* DELEGATE_TASK, raise a weight whose condition does not hold, touch
\* another weight, or lower any weight.
C30_StrategyStepsFollowConditions ==
    strategy.made =>
        /\ \A t \in DecisionType : ~FLess(strategy.after[t], strategy.weights[t])
        /\ \A t \in DecisionType \ {"WAIT_AND_OBSERVE", "CREATE_AGENT",
                                      "DELEGATE_TASK"} :
             strategy.after[t] = strategy.weights[t]
        /\ ~(/\ strategy.after["CREATE_AGENT"] # strategy.weights["CREATE_AGENT"]
             /\ strategy.after["DELEGATE_TASK"] # strategy.weights["DELEGATE_TASK"])
        /\ strategy.after["WAIT_AND_OBSERVE"] # strategy.weights["WAIT_AND_OBSERVE"]
             => RateBelowHalf(strategy.metrics)
        /\ strategy.after["CREATE_AGENT"] # strategy.weights["CREATE_AGENT"]
             => strategy.stored < 3
        /\ strategy.after["DELEGATE_TASK"] # strategy.weights["DELEGATE_TASK"]
             => (strategy.stored >= 3 /\ strategy.metrics.totalDecisions > 5)
        /\ strategy.error \notin {"getMetricsFirst", "getAllAgents"} =>
             /\ strategy.after["WAIT_AND_OBSERVE"] =
                  IF RateBelowHalf(strategy.metrics)
                  THEN OneStepUp(strategy.weights["WAIT_AND_OBSERVE"])
                  ELSE strategy.weights["WAIT_AND_OBSERVE"]
             /\ strategy.after["CREATE_AGENT"] =
                  IF strategy.stored < 3
                  THEN OneStepUp(strategy.weights["CREATE_AGENT"])
                  ELSE strategy.weights["CREATE_AGENT"]
             /\ strategy.after["DELEGATE_TASK"] =
                  IF strategy.stored >= 3 /\ strategy.metrics.totalDecisions > 5
                  THEN OneStepUp(strategy.weights["DELEGATE_TASK"])
                  ELSE strategy.weights["DELEGATE_TASK"]

\* A call on three stored agents, six counted cycles and a success rate
\* below 0.5: WAIT_AND_OBSERVE and DELEGATE_TASK are raised, CREATE_AGENT
\* is not.
C30_Witness ==
    /\ strategy.made
    /\ strategy.stored = 3
    /\ strategy.metrics.totalDecisions = 6
    /\ strategy.metrics.successfulActions = 2
    /\ FLess(strategy.weights["WAIT_AND_OBSERVE"], strategy.after["WAIT_AND_OBSERVE"])
    /\ FLess(strategy.weights["DELEGATE_TASK"], strategy.after["DELEGATE_TASK"])
    /\ strategy.after["CREATE_AGENT"] = strategy.weights["CREATE_AGENT"]

\* The classes of the claim, in exact arithmetic on the agent's counters.
RateBelow(agent, tenths) ==
    /\ agent.successCount + agent.failureCount > 0
    /\ 10 * agent.successCount
         < tenths * (agent.successCount + agent.failureCount)

ClassifiedCritical(agent) == RateBelow(agent, 3) \/ agent.sinceActive > 300000

ClassifiedHealthy(agent) ==
    /\ ~ClassifiedCritical(agent)
    /\ ~(RateBelow(agent, 6) \/ agent.sinceActive > 120000)

TakeOvers == {k \in DOMAIN coordination.messages :
                coordination.messages[k].action = "TAKE_OVER"}

Coordinated == {coordination.activeAgents[i] : i \in DOMAIN coordination.activeAgents}

\* C31: a call of coordinateAgents creates at most one TAKE_OVER message per
\* agent classified CRITICAL (success rate < 0.3 or idle > 300 s), and every
\* TAKE_OVER message is created for such an agent and addressed to an agent
\* of the snapshot that is classified HEALTHY, has the same role and has a
\* different id.
C31_TakeOverGoesToHealthyPeer ==
    coordination.made =>
      /\ \A a \in Coordinated :
           Cardinality({k \in TakeOvers :
                          coordination.messages[k].fromAgent = a.id}) <= 1
      /\ \A k \in TakeOvers :
           \E a \in Coordinated, b \in Coordinated :
             /\ a.id = coordination.messages[k].fromAgent
             /\ b.id = coordination.messages[k].to
             /\ ClassifiedCritical(a)
             /\ ClassifiedHealthy(b)
             /\ b.role = a.role
             /\ b.id # a.id
             /\ b.id # GENESIS_ID

\* A call with a critical agent that has a healthy peer of its role and a
\* critical agent of the other role that has none.
C31_Witness ==
    /\ coordination.made
    /\ Cardinality(TakeOvers) = 1
    /\ \E a \in Coordinated :
         /\ ClassifiedCritical(a)
         /\ \A k \in TakeOvers : coordination.messages[k].fromAgent # a.id

\* The stored agents the claim lets the handler choose from.
Eligible ==
    {a \in {delegation.stored[i] : i \in DOMAIN delegation.stored} :
       /\ a.id # GENESIS_ID
       /\ a.status \in {"ACTIVE", "CREATED"}
       /\ ~a.currentTask}

\* C32: in a call of actDelegateTask whose read of the store returns, the
\* chosen agent is a non-root agent with status ACTIVE or CREATED and no
\* currentTask, and no such agent has a smaller lastActive; when there is
\* no such agent the handler changes no agent, makes no submission and
\* returns an outcome without a transaction signature.
C32_DelegatesToLeastRecentlyActive ==
    (delegation.made /\ "getAllAgents" \notin delegation.faults) =>
      IF Eligible = {}
      THEN /\ delegation.selected = "none"
           /\ delegation.after = Children(delegation.stored)
           /\ delegation.submission = NoSubmission
           /\ delegation.error = "none"
           /\ delegation.transactionSignature = NoSig
      ELSE \E a \in Eligible :
             /\ a.id = delegation.selected
             /\ \A b \in Eligible : a.lastActive <= b.lastActive

\* A call that chose the third child: the root, a paused child and a busy
\* child are older, and an eligible child that is younger comes first.
C32_Witness ==
    /\ delegation.made
    /\ delegation.selected = "agent_3"
    /\ Len(delegation.stored) = 4
    /\ delegation.stored[2].lastActive > delegation.stored[4].lastActive
    /\ delegation.stored[2] \in Eligible
    /\ delegation.stored[3] \notin Eligible
    /\ delegation.stored[3].lastActive < delegation.stored[4].lastActive

\* A call on a store without an eligible agent.
C32_WitnessNone ==
    /\ delegation.made
    /\ "getAllAgents" \notin delegation.faults
    /\ Eligible = {}
    /\ Len(delegation.stored) = 3

\* The first cycle has acted and its Log phase has thrown before the
\* decision pair was appended: the loop is in its catch block.
FirstLogFailed ==
    /\ cycle = 1
    /\ pc = "cooldown"
    /\ result # NoActionResult
    /\ appended = 0

\* C33: when the Log phase of a cycle fails, the decision weights at the end
\* of that cycle are the weights at its start, for every decision type.
\* Stated for the first cycle, which starts with the weights the engine is
\* constructed with.
C33_UnloggedDecisionKeepsWeights ==
    FirstLogFailed => decisionWeights = InitialWeights

\* The same for every decision type but EVOLVE_STRATEGY.
C33_OtherTypesKeepWeights ==
    (FirstLogFailed /\ decision.type # "EVOLVE_STRATEGY")
      => decisionWeights = InitialWeights

\* No cycle is under way: before the first, between two, after the last.
BetweenCycles == pc \in {"idle", "check"}

\* C34: after any sequence of cycles from an empty store, also cycles in
\* which a store operation of the Evolve phase or of the closing metrics
\* update fails, totalDecisions equals the length of the decision log.
C34_TotalDecisionsCountsTheLog ==
    BetweenCycles => metrics.totalDecisions = Len(decisionLog)

\* The same after cycles in which every phase from Log on returned.
C34_CountsTheLogOfCompletedCycles ==
    [][(pc = "metrics" /\ pc' = "wait")
         => metrics'.totalDecisions - metrics.totalDecisions = appended]_vars

Aggregates(m) == <<m.totalDecisions, m.successfulActions, m.failedActions>>

\* The closing updateMetrics of a cycle has returned.
CycleCompletes == pc = "metrics" /\ pc' = "wait"

\* C35: from zeroed aggregates, successfulActions + failedActions =
\* totalDecisions in every state; a cycle that completes adds exactly 1 to
\* totalDecisions and exactly 1 to successfulActions when its ActionResult
\* has success = true, to failedActions otherwise, and nothing else changes
\* the three aggregates.
C35_AggregatesAddUp ==
    /\ [](metrics.successfulActions + metrics.failedActions
            = metrics.totalDecisions)
    /\ [][/\ CycleCompletes =>
               Aggregates(metrics') =
                 <<metrics.totalDecisions + 1,
                   metrics.successfulActions + (IF result.success THEN 1 ELSE 0),
                   metrics.failedActions + (IF result.success THEN 0 ELSE 1)>>
          /\ ~CycleCompletes => Aggregates(metrics') = Aggregates(metrics)]_vars

\* Two cycles have completed, one with a failed action and one with a
\* successful one.
C35_Witness ==
    /\ metrics.totalDecisions = 2
    /\ metrics.successfulActions = 1
    /\ metrics.failedActions = 1

\* What a step adds to the two task counters of stored agent i.
CounterSteps(i) ==
    <<agents'[i].successCount - agents[i].successCount,
      agents'[i].failureCount - agents[i].failureCount>>

\* C36: an executeTask call adds 1 to exactly one of the agent's
\* successCount and failureCount and leaves the other as it was, also when
\* the saveAgent that persists the completed task throws: no step of the
\* loop changes the counters of a stored agent in another way.
C36_TaskCountsOnce ==
    [][\A i \in DOMAIN agents :
         i \in DOMAIN agents' =>
           CounterSteps(i) \in {<<0, 0>>, <<1, 0>>, <<0, 1>>}]_vars

\* The Act step of a DELEGATE_TASK cycle in which executeTask returned a
\* task with status FAILED: its catch block has counted the failure.
DelegatedTaskFailed ==
    /\ pc = "act"
    /\ decision.type = "DELEGATE_TASK"
    /\ \E i \in DOMAIN agents :
         agents'[i].failureCount > agents[i].failureCount

\* C37: the ActionResult of a DELEGATE_TASK decision has success = true
\* only if the delegated task ended COMPLETED or no idle agent was
\* available: a task that ended FAILED gives success = false.
C37_FailedTaskFailsTheAction ==
    [][DelegatedTaskFailed => ~result'.success]_vars

\* C38: for every weight vector the engine reaches and every observed
\* state, generateOptions gives the six action types, each has a normalized
\* weight above 0 after the jitter, and for each there is a draw for which
\* selectDecision returns it.
C38_EveryTypeCanBeSelected ==
    selection.made =>
      /\ {selection.options[i].type : i \in DOMAIN selection.options}
           = DecisionType
      /\ \A i \in DOMAIN selection.options :
           /\ FLess(D_0, selection.normalized[i])
           /\ FLess(selection.draws[i], D_1_0)
           /\ selection.returned[i] = selection.options[i].type

\* A selection on an engine whose ANALYZE_PERFORMANCE weight is at the
\* floor of 0.05, with that option at the lowest jitter: it still has a
\* share and a draw returns it.
C38_Witness ==
    /\ selection.made
    /\ decisionWeights["ANALYZE_PERFORMANCE"] = D_0_05
    /\ FLess(selection.normalized[6], D_0_05)
    /\ selection.returned[6] = "ANALYZE_PERFORMANCE"
    /\ FLess(selection.draws[5], selection.draws[6])

\* The number of stored agents with the k-th role.
ActiveWithRole(k) == RoleCount(ActiveRoles(factory.agents), AgentRoles[k])

\* C39: when agents enter the store only through the CREATE_AGENT action
\* and every stored agent stays ACTIVE or CREATED, the numbers of agents of
\* any two of the five roles differ by at most 1 in every state, also after
\* actions that fail partway.
C39_RolesStayBalanced ==
    \A j \in DOMAIN AgentRoles, k \in DOMAIN AgentRoles :
        ActiveWithRole(j) - ActiveWithRole(k) <= 1

\* Six agents are stored, one role has two of them, and the last action
\* failed after its agent was stored.
C39_Witness ==
    /\ Len(factory.agents) = 6
    /\ \E k \in DOMAIN AgentRoles : ActiveWithRole(k) = 2
    /\ factory.created.made
    /\ factory.created.threw = "saveAgentActive"

====
